---- MODULE Spec2Model ----
(***************************************************************************)
(* Model of the platformer simulation in src/source_code/test.cpp.         *)
(*                                                                         *)
(* Number representation.  The program computes in 32-bit floats; the      *)
(* model computes in exact fixed point:                                    *)
(*   time       milliseconds (SDL ticks are whole milliseconds)            *)
(*   velocity   hundredths of a pixel per second  (VelScale per px/s)      *)
(*   position   hundred-thousandths of a pixel    (PosScale per px)        *)
(*   fadeAlpha  tenths of an alpha unit           (AlphaScale per unit)    *)
(* so that vel * deltaTime is a position and GRAVITY * deltaTime is a      *)
(* velocity without rounding.  Integer rectangles (SDL_Rect) are whole     *)
(* pixels, obtained from positions by truncation toward zero as (int)      *)
(* does.                                                                   *)
(*                                                                         *)
(* The model's arithmetic is exact where the program's rounds to 24 bits.  *)
(* The two agree on every comparison and every (int) unless a timer comes  *)
(* within rounding of zero (0.1f - 4 * 0.025f is positive in the program)  *)
(* or a position within rounding of a whole pixel.  The frame times of the *)
(* specifications below are chosen so that, within their bounds, a timer   *)
(* reaches zero and a position a whole pixel only through operations that  *)
(* are exact in floats as well (0.05f - 0.05f, 300 * 0.04f = 12).          *)
(***************************************************************************)
EXTENDS Integers, Sequences, FiniteSets, TLC

VARIABLES
    pc,                  \* position in Game::Run: "HandleInput", "Update", "done"
    isRunning,
    deltaTime,           \* ms, after the clamp
    player,
    enemies,             \* sequence of enemy records
    coins,               \* sequence of [body, collected]
    platforms,           \* sequence of rectangles, immutable after load
    camera,
    cameraRect,
    playerIsRespawning,
    playerHasReset,
    playerHasWon,
    fadeAlpha,
    keysNow,             \* the input snapshot read by the last HandleInput
    events,              \* what the last step emitted (PlaySfx, death, win)
    probe,               \* observations of the last step (see NoProbe)
    frame                \* loop iterations started in Active mode

vars == <<pc, isRunning, deltaTime, player, enemies, coins, platforms, camera,
          cameraRect, playerIsRespawning, playerHasReset, playerHasWon,
          fadeAlpha, keysNow, events, probe, frame>>

----------------------------------------------------------------------------
(* Fixed-point scales *)
PosScale == 100000
VelScale == 100
AlphaScale == 10

(* struct Constants *)
WIN_WIDTH == 1400
WIN_HEIGHT == 800
LEVEL_WIDTH == 4250
FLOOR_LEVEL == 700
GRAVITY == 1800
TERMINAL_VELOCITY == 1200
CAMERA_DELAY == 15
HORIZONTAL_KNOCKBACK == 600
VERTICAL_KNOCKBACK == -200
FADE_SPEED == 300

(* Player constants: Player(55, 100, this), speed, jumpVelocity *)
PlayerW == 55
PlayerH == 100
speed == 300
jumpVelocity == -960

(* Timer values, in ms *)
DashTime == 300
DashCooldownTime == 750
AttackTime == 500
AttackCooldownTime == 750
CoyoteTime == 50
KnockbackTime == 100
DamageCooldownTime == 750
RespawnTime == 10000
MaxDelta == 50
FadeMax == 255

(* Damage amounts and the default player data *)
AttackDamage == 2
ContactDamage == 1
DefaultX == 100
DefaultY == 250
DefaultHealth == 10

----------------------------------------------------------------------------
(* Arithmetic helpers *)

Abs(n) == IF n < 0 THEN -n ELSE n

\* Integer quotient rounded toward zero, as C's (int) conversion and integer
\* division do.
Trunc(n, d) == IF n >= 0 THEN n \div d ELSE -((-n) \div d)

\* (int)pos : whole pixels of a position
ToInt(pos) == Trunc(pos, PosScale)

\* (float)px : position of a whole pixel
ToPos(px) == px * PosScale

\* a * b / d rounded toward zero, computed without leaving 32 bits
MulDiv(a, b, d) ==
    LET q == Trunc(a, d)
        r == a - q * d
    IN q * b + Trunc(r * b, d)

RECURSIVE SqrtSearch(_, _, _)
SqrtSearch(n, lo, hi) ==
    IF lo >= hi THEN lo
    ELSE LET mid == (lo + hi + 1) \div 2
         IN IF mid * mid <= n THEN SqrtSearch(n, mid, hi)
                              ELSE SqrtSearch(n, lo, mid - 1)

\* floor(sqrtf(n)) for 0 <= n < 2^31
ISqrt(n) == SqrtSearch(n, 0, 46340)

----------------------------------------------------------------------------
(* The float arithmetic of calcKnockback.  A float is [m, e], the number    *)
(* m * 2^e with 2^23 <= |m| < 2^24, or m = 0; every operation gives the     *)
(* float nearest to the exact result, ties to the even m, as the program's  *)
(* single-precision operations do.  The numbers of calcKnockback stay far   *)
(* from the ends of the exponent range.                                     *)

\* The number of binary digits of n, 0 < n < 2^31
BitLen(n) == CHOOSE k \in 1..31 : n \div 2^(k - 1) = 1

\* The float nearest to n * 2^e
F32Round(n, e) ==
    IF n = 0 THEN [m |-> 0, e |-> 0]
    ELSE LET k == BitLen(Abs(n)) - 24
             q == IF k > 0 THEN Abs(n) \div 2^k ELSE Abs(n) * 2^(-k)
             r == IF k > 0 THEN Abs(n) % 2^k ELSE 0
             up == k > 0 /\ (2 * r > 2^k \/ (2 * r = 2^k /\ q % 2 = 1))
             mm == IF up THEN q + 1 ELSE q
             m24 == IF mm = 16777216 THEN 8388608 ELSE mm
         IN [m |-> IF n < 0 THEN -m24 ELSE m24,
             e |-> IF mm = 16777216 THEN e + k + 1 ELSE e + k]

\* The float of the whole number n
F32Of(n) == F32Round(n, 0)

\* The float of a position of n position units: the one nearest to
\* n / PosScale px.  The quotient is taken to 26 binary digits, a last digit
\* telling whether anything is left of it.
F32FromPos(n) ==
    IF n = 0 THEN F32Of(0)
    ELSE LET s == 30 - BitLen(Abs(n))
             num == Abs(n) * 2^s
             r0 == num % PosScale
             q1 == (num \div PosScale) * 8192 + (r0 * 8192) \div PosScale
             v == 2 * q1 + (IF (r0 * 8192) % PosScale = 0 THEN 0 ELSE 1)
         IN F32Round(IF n < 0 THEN -v ELSE v, -s - 14)

\* a + b
F32Add(a, b) ==
    IF a.m = 0 THEN b
    ELSE IF b.m = 0 THEN a
    ELSE LET hi == IF a.e >= b.e THEN a ELSE b
             lo == IF a.e >= b.e THEN b ELSE a
             gap == hi.e - lo.e
             s2 == IF gap > 30 THEN 0 ELSE (Abs(lo.m) * 32) \div 2^gap
             st == IF gap > 30 THEN 1
                   ELSE IF (Abs(lo.m) * 32) % 2^gap = 0 THEN 0 ELSE 1
             t == 2 * s2 + st
         IN F32Round(64 * hi.m + (IF lo.m < 0 THEN -t ELSE t), hi.e - 6)

\* a - b
F32Sub(a, b) == F32Add(a, [m |-> -b.m, e |-> b.e])

\* a * b: the product of the two m, of 48 binary digits, from their halves
\* of 12
F32Mul(a, b) ==
    IF a.m = 0 \/ b.m = 0 THEN F32Of(0)
    ELSE LET xh == Abs(a.m) \div 4096
             xl == Abs(a.m) % 4096
             yh == Abs(b.m) \div 4096
             yl == Abs(b.m) % 4096
             mid == xh * yl + xl * yh
             low == xl * yl + (mid % 4096) * 4096
             high == xh * yh + mid \div 4096 + low \div 16777216
             v == 8 * high + 2 * ((low % 16777216) \div 4194304)
                    + (IF low % 4194304 = 0 THEN 0 ELSE 1)
         IN F32Round(IF (a.m < 0) # (b.m < 0) THEN -v ELSE v, a.e + b.e + 21)

\* One step of a long division by d: the quotient and remainder qr, the
\* quotient longer by the digits of base
DivStep(qr, d, base) ==
    <<qr[1] * base + (qr[2] * base) \div d, (qr[2] * base) % d>>

\* a / b for b # 0: the quotient of the two m to 26 binary digits
F32Div(a, b) ==
    IF a.m = 0 THEN F32Of(0)
    ELSE LET d == Abs(b.m)
             q0 == <<Abs(a.m) \div d, Abs(a.m) % d>>
             q24 == DivStep(DivStep(DivStep(DivStep(q0, d, 64), d, 64), d, 64), d, 64)
             q26 == DivStep(q24, d, 4)
             v == 2 * q26[1] + (IF q26[2] = 0 THEN 0 ELSE 1)
         IN F32Round(IF (a.m < 0) # (b.m < 0) THEN -v ELSE v, a.e - b.e - 27)

\* k more binary digits of a square root, from the root and remainder so far
RECURSIVE SqrtDigits(_, _, _)
SqrtDigits(root, rem, k) ==
    IF k = 0 THEN <<root, rem>>
    ELSE IF 4 * rem >= 4 * root + 1
         THEN SqrtDigits(2 * root + 1, 4 * rem - (4 * root + 1), k - 1)
         ELSE SqrtDigits(2 * root, 4 * rem, k - 1)

\* sqrtf(a) for a >= 0
F32Sqrt(a) ==
    IF a.m = 0 THEN F32Of(0)
    ELSE LET odd == a.e % 2 = 1
             n0 == (IF odd THEN 2 * a.m ELSE a.m) * 64
             r0 == ISqrt(n0)
             d == SqrtDigits(r0, n0 - r0 * r0, 10)
             v == 2 * d[1] + (IF d[2] = 0 THEN 0 ELSE 1)
         IN F32Round(v, (IF odd THEN a.e - 1 ELSE a.e) \div 2 - 14)

\* fabs(a) < b for b >= 0
F32AbsLess(a, b) ==
    IF b.m = 0 THEN FALSE
    ELSE IF a.m = 0 THEN TRUE
    ELSE a.e < b.e \/ (a.e = b.e /\ Abs(a.m) < b.m)

\* The whole number of velocity units nearest to the float a, in px/s
F32ToVel(a) ==
    LET x == Abs(a.m) * VelScale
        k == -a.e
        v == IF k <= 0 THEN x * 2^(-k)
             ELSE IF k >= 32 THEN 0
             ELSE IF k = 31 THEN (IF x >= 1073741824 THEN 1 ELSE 0)
             ELSE x \div 2^k + (IF 2 * (x % 2^k) >= 2^k THEN 1 ELSE 0)
    IN IF a.m < 0 THEN -v ELSE v

----------------------------------------------------------------------------
(* Geometry primitives *)

Rect(x, y, w, h) == [x |-> x, y |-> y, w |-> w, h |-> h]

\* Axis-aligned bounding box collision
AABB(a, b) ==
    /\ a.x < b.x + b.w
    /\ a.x + a.w > b.x
    /\ a.y < b.y + b.h
    /\ a.y + a.h > b.y

\* The body rectangle of a player or enemy record
BodyOf(e) == Rect(e.bodyX, e.bodyY, e.w, e.h)

\* direction * HORIZONTAL_KNOCKBACK left as it is
KnockbackVelocityRaw(vx, vy) ==
    [velX |-> F32ToVel(vx), velY |-> F32ToVel(vy)]

\* "Add a set vertical knockback if both objects are on similar y-levels":
\* the velocity calcKnockback leaves, given the floats
\* direction * HORIZONTAL_KNOCKBACK
KnockbackVelocity(vx, vy) ==
    [velX |-> F32ToVel(vx),
     velY |-> IF F32AbsLess(vy, F32Of(10)) THEN VERTICAL_KNOCKBACK * VelScale
              ELSE F32ToVel(vy)]

\* direction / length * HORIZONTAL_KNOCKBACK, for the floats direction and
\* length > 0
KnockbackAlong(dx, dy, length) ==
    KnockbackVelocity(F32Mul(F32Div(dx, length), F32Of(HORIZONTAL_KNOCKBACK)),
                      F32Mul(F32Div(dy, length), F32Of(HORIZONTAL_KNOCKBACK)))

\* The body of calcKnockback for the float direction (dx, dy), with the old
\* velocity
KnockbackIn(dx, dy, velX, velY) ==
    LET length == F32Sqrt(F32Add(F32Mul(dx, dx), F32Mul(dy, dy)))
    IN IF length.m > 0 THEN KnockbackAlong(dx, dy, length)
       ELSE [velX |-> velX, velY |-> velY]

\* calcKnockback(pos, vel, damageLocation): the new velocity.  The
\* positions are taken as the floats nearest to them and the program's
\* float operations are repeated on them; the velocity that results is
\* stored as the nearest whole number of velocity units (0.01 px/s).
calcKnockback(posX, posY, velX, velY, locX, locY) ==
    KnockbackIn(F32Sub(F32FromPos(posX), F32FromPos(locX)),
                F32Sub(F32FromPos(posY), F32FromPos(locY)), velX, velY)

----------------------------------------------------------------------------
(* Player *)

\* Player(width, height, game): at the origin, with health 10
NewPlayer(width, height) ==
    [posX |-> 0, posY |-> 0, velX |-> 0, velY |-> 0,
     bodyX |-> 0, bodyY |-> 0, w |-> width, h |-> height,
     atkX |-> 0, atkY |-> 0,
     canDash |-> TRUE, isDashing |-> FALSE, dashPressedLastFrame |-> FALSE,
     dashTimer |-> 0, dashCooldown |-> 0,
     isAttacking |-> FALSE, attackPressedLastFrame |-> FALSE,
     attackDirection |-> "RIGHT", attackTimer |-> 0, attackCooldown |-> 0,
     isGrounded |-> FALSE, coyoteTimer |-> 0,
     damageCooldown |-> 0, knockbackTimer |-> 0,
     isJumping |-> FALSE, facingLeft |-> FALSE, health |-> 10]

\* The body, position and health that setPlayerData copies from the save
\* file data, [x, y, health]
LoadPlayerData(p, data) ==
    [p EXCEPT !.bodyX = data.x, !.bodyY = data.y,
              !.posX = ToPos(data.x), !.posY = ToPos(data.y),
              !.health = data.health]

\* The attack hitbox: a square of the body's width
AttackHitbox(p) == Rect(p.atkX, p.atkY, p.w, p.w)

\* HandleInput, "Dash" block
HandleDash(p, keys) ==
    IF "dash" \in keys /\ ~p.dashPressedLastFrame /\ p.canDash
       /\ p.dashCooldown <= 0
    THEN [p EXCEPT !.isDashing = TRUE, !.canDash = FALSE,
                   !.dashTimer = DashTime, !.dashCooldown = DashCooldownTime]
    ELSE p

\* HandleInput, the jump test inside the movement block
HandleJump(p, keys) ==
    IF "jump" \in keys
    THEN IF p.isGrounded /\ ~p.isJumping
         THEN [p EXCEPT !.velY = jumpVelocity * VelScale, !.isJumping = TRUE]
         ELSE p
    ELSE [p EXCEPT !.isJumping = FALSE]

\* HandleInput, "Move left" and "Move right"
HandleLeft(p, keys) ==
    IF "left" \in keys
    THEN [p EXCEPT !.facingLeft = TRUE, !.velX = -speed * VelScale] ELSE p

HandleRight(p, keys) ==
    IF "right" \in keys
    THEN [p EXCEPT !.facingLeft = FALSE, !.velX = speed * VelScale] ELSE p

\* HandleInput, movement block: skipped while dashing or in knockback
HandleMove(p, keys) ==
    IF ~p.isDashing /\ p.knockbackTimer <= 0
    THEN HandleJump(HandleRight(HandleLeft([p EXCEPT !.velX = 0], keys), keys), keys)
    ELSE p

\* HandleInput sets vel.y to jumpVelocity
JumpTriggered(p, keys) ==
    /\ ~HandleDash(p, keys).isJumping
    /\ HandleMove(HandleDash(p, keys), keys).isJumping

\* The direction chosen without the test for being airborne
ChooseAttackDirectionAnywhere(p, keys) ==
    IF "up" \in keys THEN "UP"
    ELSE IF "down" \in keys THEN "DOWN"
    ELSE IF p.facingLeft THEN "LEFT"
    ELSE "RIGHT"

\* HandleInput, the direction chosen when an attack is triggered
ChooseAttackDirection(p, keys) ==
    IF "up" \in keys THEN "UP"
    ELSE IF "down" \in keys /\ ~p.isGrounded THEN "DOWN"
    ELSE IF p.facingLeft THEN "LEFT"
    ELSE "RIGHT"

\* The "Attack" block without the rising-edge test
HandleAttackHeld(p, keys) ==
    IF "attack" \in keys /\ ~p.isAttacking /\ p.attackCooldown <= 0
    THEN [p EXCEPT !.isAttacking = TRUE, !.attackTimer = AttackTime,
                   !.attackCooldown = AttackCooldownTime,
                   !.attackDirection = ChooseAttackDirection(p, keys)]
    ELSE p

\* HandleInput, "Attack" block
HandleAttack(p, keys) ==
    IF "attack" \in keys /\ ~p.attackPressedLastFrame /\ ~p.isAttacking
       /\ p.attackCooldown <= 0
    THEN [p EXCEPT !.isAttacking = TRUE, !.attackTimer = AttackTime,
                   !.attackCooldown = AttackCooldownTime,
                   !.attackDirection = ChooseAttackDirection(p, keys)]
    ELSE p

\* Player::HandleInput.  keys is the set of logical inputs that are down
\* (keyboard and controller sources already OR'd).
Player_HandleInput(p, keys) ==
    [HandleAttack(HandleMove(HandleDash(p, keys), keys), keys)
     EXCEPT !.dashPressedLastFrame = ("dash" \in keys),
            !.attackPressedLastFrame = ("attack" \in keys)]

\* Player::Update, "Apply dash"
Player_Dash(p, dt) ==
    IF p.isDashing
    THEN [p EXCEPT
            !.velX = IF p.facingLeft
                     THEN -((speed * 15 * p.dashTimer * VelScale) \div 1000)
                     ELSE (speed * 15 * p.dashTimer * VelScale) \div 1000,
            !.dashTimer = p.dashTimer - dt,
            !.isDashing = ~(p.dashTimer - dt <= 0)]
    ELSE p

\* Player::Update, "Update attack timer"
Player_AttackTimer(p, dt) ==
    IF p.isAttacking
    THEN [p EXCEPT !.attackTimer = p.attackTimer - dt,
                   !.isAttacking = ~(p.attackTimer - dt <= 0)]
    ELSE p

\* "Allows shorter jumps": extra gravity while rising with jump released
JumpCut(p, vy, dt) ==
    IF ~p.isJumping /\ vy < 0 THEN vy + (GRAVITY * dt * 3 * VelScale) \div 1000
    ELSE vy

\* No cap on the fall speed
CapFallNone(vy) == vy

\* "Cap fall speed to terminal velocity"
CapFall(vy) ==
    IF vy > TERMINAL_VELOCITY * VelScale THEN TERMINAL_VELOCITY * VelScale ELSE vy

\* Player::Update, gravity, jump cut and terminal velocity
Player_Gravity(p, dt) ==
    [p EXCEPT !.velY =
        CapFall(JumpCut(p, p.velY + (GRAVITY * dt * VelScale) \div 1000, dt))]

\* Player::Update, first block: dash, attack timer, gravity, jump cut,
\* terminal velocity; or the knockback countdown
Player_Velocity(p, dt) ==
    IF p.knockbackTimer <= 0
    THEN Player_Gravity(Player_AttackTimer(Player_Dash(p, dt), dt), dt)
    ELSE [p EXCEPT !.knockbackTimer = p.knockbackTimer - dt]

\* Player::Update, "Apply horizontal velocity" and the level clamp
Player_MoveX(p, dt) ==
    LET x1 == p.posX + p.velX * dt
        offL == x1 < 0
        offR == ~offL /\ x1 + ToPos(p.w) > ToPos(LEVEL_WIDTH)
        x2 == IF offL THEN 0
              ELSE IF offR THEN ToPos(LEVEL_WIDTH - p.w) ELSE x1
    IN [p EXCEPT !.posX = x2,
                 !.velX = IF offL \/ offR THEN 0 ELSE p.velX,
                 !.bodyX = ToInt(x2)]

\* One iteration of the horizontal platform loop
PushOutX(e, pl) ==
    IF AABB(BodyOf(e), pl)
    THEN LET bx == IF e.velX > 0 THEN pl.x - e.w
                   ELSE IF e.velX < 0 THEN pl.x + pl.w
                   ELSE e.bodyX
         IN [e EXCEPT !.bodyX = bx, !.posX = ToPos(bx), !.velX = 0]
    ELSE e

RECURSIVE ResolveX(_, _, _)
ResolveX(e, plats, i) ==
    IF i > Len(plats) THEN e
    ELSE ResolveX(PushOutX(e, plats[i]), plats, i + 1)

\* Player::Update, horizontal pass
Player_HorizontalPass(p, plats, dt) == ResolveX(Player_MoveX(p, dt), plats, 1)

\* One iteration of the vertical platform loop; landed records
\* groundedThisFrame
PushOutY(r, pl) ==
    LET e == r.e
    IN IF AABB(BodyOf(e), pl)
       THEN LET by == IF e.velY > 0 THEN pl.y - e.h
                      ELSE IF e.velY < 0 THEN pl.y + pl.h
                      ELSE e.bodyY
            IN [e |-> [e EXCEPT !.bodyY = by, !.posY = ToPos(by), !.velY = 0],
                landed |-> r.landed \/ e.velY > 0]
       ELSE r

RECURSIVE ResolveY(_, _, _)
ResolveY(r, plats, i) ==
    IF i > Len(plats) THEN r
    ELSE ResolveY(PushOutY(r, plats[i]), plats, i + 1)

\* "Apply vertical velocity"
MoveY(e, dt) ==
    LET y1 == e.posY + e.velY * dt
    IN [e EXCEPT !.posY = y1, !.bodyY = ToInt(y1)]

\* Player::Update, vertical pass: [e |-> player, landed |-> groundedThisFrame]
Player_VerticalPass(p, plats, dt) ==
    ResolveY([e |-> MoveY(p, dt), landed |-> FALSE], plats, 1)

\* Player::Update, grounding and coyote time
Player_Grounding(p, groundedThisFrame, dt) ==
    IF groundedThisFrame
    THEN [p EXCEPT !.isGrounded = TRUE, !.coyoteTimer = CoyoteTime]
    ELSE IF p.coyoteTimer > 0
         THEN [p EXCEPT !.coyoteTimer = p.coyoteTimer - dt, !.isGrounded = TRUE]
         ELSE [p EXCEPT !.isGrounded = FALSE]

\* Player::Update, "Make attack hitbox follow player"
Player_Hitbox(p) ==
    IF p.isAttacking
    THEN CASE p.attackDirection = "UP" ->
                [p EXCEPT !.atkX = ToInt(p.posX),
                          !.atkY = ToInt(p.posY - ToPos(p.w))]
           [] p.attackDirection = "DOWN" ->
                [p EXCEPT !.atkX = ToInt(p.posX),
                          !.atkY = ToInt(p.posY + ToPos(p.h))]
           [] p.attackDirection = "LEFT" ->
                [p EXCEPT !.atkX = ToInt(p.posX - ToPos(p.w)),
                          !.atkY = ToInt(p.posY + ToPos(p.w \div 2))]
           [] p.attackDirection = "RIGHT" ->
                [p EXCEPT !.atkX = ToInt(p.posX + ToPos(p.w)),
                          !.atkY = ToInt(p.posY + ToPos(p.w \div 2))]
    ELSE p

\* Player::Update, "Apply cooldowns" and the dash re-enable
Player_Cooldowns(p, dt) ==
    [p EXCEPT
       !.dashCooldown = IF @ > 0 THEN @ - dt ELSE @,
       !.attackCooldown = IF @ > 0 THEN @ - dt ELSE @,
       !.damageCooldown = IF @ > 0 THEN @ - dt ELSE @,
       !.canDash = IF p.isGrounded /\ ~p.canDash THEN TRUE ELSE @]

\* Player::Update, "Make camera follow player"
CameraTarget(cam, p) ==
    [cam EXCEPT
       !.targetX = p.posX + ToPos(p.w \div 2) - ToPos(cam.w \div 2),
       !.targetY = p.posY + ToPos(p.h \div 2) - (cam.h * PosScale * 10) \div 18]

\* Player::Update from the grounding test on; p is the player after it
Player_AfterGrounding(p, cam, landed, dt) ==
    [player |-> Player_Cooldowns(Player_Hitbox(p), dt),
     camera |-> CameraTarget(cam, p),
     landed |-> landed]

\* Player::Update after the vertical pass r
Player_AfterPasses(r, cam, dt) ==
    Player_AfterGrounding(Player_Grounding(r.e, r.landed, dt), cam, r.landed, dt)

\* Player::Update: [player |-> ..., camera |-> ..., landed |-> groundedThisFrame]
Player_Update(p, plats, cam, dt) ==
    Player_AfterPasses(
        Player_VerticalPass(
            Player_HorizontalPass(Player_Velocity(p, dt), plats, dt), plats, dt),
        cam, dt)

\* Player::RespawnPlayer without the velocity reset
Player_RespawnPlayerKeepsVel(p, cam, x, y, hp) ==
    [player |-> [p EXCEPT !.bodyX = x, !.bodyY = y,
                          !.posX = ToPos(x), !.posY = ToPos(y),
                          !.damageCooldown = 0, !.health = hp],
     camera |-> [cam EXCEPT
                   !.x = 0,
                   !.y = ToPos(y) + ToPos(p.h \div 2) - (cam.h * PosScale * 10) \div 18]]

\* Player::RespawnPlayer: [player |-> ..., camera |-> ...]
Player_RespawnPlayer(p, cam, x, y, hp) ==
    [player |-> [p EXCEPT !.bodyX = x, !.bodyY = y,
                          !.posX = ToPos(x), !.posY = ToPos(y),
                          !.velX = 0, !.velY = 0,
                          !.damageCooldown = 0, !.health = hp],
     camera |-> [cam EXCEPT
                   !.x = 0,
                   !.y = ToPos(y) + ToPos(p.h \div 2) - (cam.h * PosScale * 10) \div 18]]

----------------------------------------------------------------------------
(* Enemy *)

\* Enemy(game, x, y, width, height, health, isFlying)
NewEnemy(x, y, width, height, hp, flying) ==
    [posX |-> ToPos(x), posY |-> ToPos(y), velX |-> 0, velY |-> 0,
     bodyX |-> x, bodyY |-> y, w |-> width, h |-> height,
     respawnX |-> ToPos(x), respawnY |-> ToPos(y),
     damageCooldown |-> 0, knockbackTimer |-> 0, respawnTimer |-> 0,
     health |-> hp, maxHealth |-> hp,
     onScreen |-> FALSE, isFlying |-> flying, isAlive |-> TRUE]

\* Enemy::CheckOnScreen
Enemy_CheckOnScreen(e, camRect) ==
    IF e.isAlive THEN [e EXCEPT !.onScreen = AABB(BodyOf(e), camRect)] ELSE e

\* The chase rule of one axis: away below, toward above, else zero
Chase(playerPos, playerExtent, pos, extent, chaseSpeed) ==
    IF playerPos + ToPos(playerExtent) < pos + ToPos(1) THEN -chaseSpeed * VelScale
    ELSE IF playerPos > pos + ToPos(extent) - ToPos(1) THEN chaseSpeed * VelScale
    ELSE 0

\* MeleeEnemy::TrackPlayer
MeleeEnemy_TrackPlayer(e, playerPosX, playerPosY, playerBody) ==
    [e EXCEPT !.velX = Chase(playerPosX, playerBody.w, e.posX, e.w, 150)]

\* FlyingEnemy::TrackPlayer
FlyingEnemy_TrackPlayer(e, playerPosX, playerPosY, playerBody) ==
    [e EXCEPT !.velX = Chase(playerPosX, playerBody.w, e.posX, e.w, 100),
              !.velY = Chase(playerPosY, playerBody.h, e.posY, e.h, 100)]

\* The virtual call Enemy::TrackPlayer
TrackPlayer(e, playerPosX, playerPosY, playerBody) ==
    IF e.isFlying THEN FlyingEnemy_TrackPlayer(e, playerPosX, playerPosY, playerBody)
    ELSE MeleeEnemy_TrackPlayer(e, playerPosX, playerPosY, playerBody)

\* Enemy::Update, "Apply gravity to non-flying enemies"
Enemy_Gravity(e, dt) ==
    IF e.isFlying THEN e
    ELSE [e EXCEPT !.velY = CapFall(e.velY + (GRAVITY * dt * VelScale) \div 1000)]

\* Enemy::Update, first block: tracking and gravity, or the knockback
\* countdown
Enemy_Velocity(e, dt, playerPosX, playerPosY, playerBody) ==
    IF e.knockbackTimer <= 0
    THEN Enemy_Gravity(TrackPlayer(e, playerPosX, playerPosY, playerBody), dt)
    ELSE [e EXCEPT !.knockbackTimer = e.knockbackTimer - dt]

\* Enemy::Update, "Apply horizontal velocity" (no level clamp)
Enemy_MoveX(e, dt) ==
    LET x1 == e.posX + e.velX * dt
    IN [e EXCEPT !.posX = x1, !.bodyX = ToInt(x1)]

\* Enemy::Update, horizontal pass
Enemy_HorizontalPass(e, plats, dt) == ResolveX(Enemy_MoveX(e, dt), plats, 1)

\* Enemy::Update, vertical pass
Enemy_VerticalPass(e, plats, dt) ==
    ResolveY([e |-> MoveY(e, dt), landed |-> FALSE], plats, 1).e

\* Enemy::Respawn
Enemy_Respawn(e) ==
    [e EXCEPT !.isAlive = TRUE, !.health = e.maxHealth, !.knockbackTimer = 0,
              !.posX = e.respawnX, !.posY = e.respawnY,
              !.bodyX = ToInt(e.respawnX), !.bodyY = ToInt(e.respawnY)]

\* The countdown that respawns the enemy with half the time left
Enemy_RespawnTimerEarly(e, dt) ==
    IF e.respawnTimer - dt <= RespawnTime \div 2
    THEN Enemy_Respawn([e EXCEPT !.respawnTimer = e.respawnTimer - dt])
    ELSE [e EXCEPT !.respawnTimer = e.respawnTimer - dt]

\* Enemy::Update, the respawn countdown of a dead enemy
Enemy_RespawnTimer(e, dt) ==
    IF e.respawnTimer - dt <= 0
    THEN Enemy_Respawn([e EXCEPT !.respawnTimer = e.respawnTimer - dt])
    ELSE [e EXCEPT !.respawnTimer = e.respawnTimer - dt]

\* Enemy::Update, "Apply damage cooldown"
Enemy_Cooldown(e, dt) ==
    [e EXCEPT !.damageCooldown = IF @ > 0 THEN @ - dt ELSE @]

\* Enemy::Update
Enemy_Update(e, plats, dt, playerPosX, playerPosY, playerBody) ==
    Enemy_Cooldown(
        IF e.onScreen
        THEN Enemy_VerticalPass(
                 Enemy_HorizontalPass(
                     Enemy_Velocity(e, dt, playerPosX, playerPosY, playerBody),
                     plats, dt),
                 plats, dt)
        ELSE IF ~e.isAlive THEN Enemy_RespawnTimer(e, dt)
        ELSE e,
        dt)

----------------------------------------------------------------------------
(* Game: the operators below act on a record g of the Game object's fields  *)
(* (player, enemies, coins, camera, cameraRect, playerIsRespawning,         *)
(* playerHasReset, playerHasWon, fadeAlpha, isRunning) plus events, the     *)
(* log of what the current step emitted.                                    *)

NoEvents ==
    [sfx |-> <<>>, playerDeath |-> 0, win |-> 0, takeDamage |-> <<>>,
     landed |-> FALSE]

\* Game::PlaySfx: the named trigger handed to the audio collaborator
PlaySfx(g, name) == [g EXCEPT !.events.sfx = Append(@, name)]

\* Game::TriggerPlayerDeath
TriggerPlayerDeath(g) ==
    [g EXCEPT !.playerIsRespawning = TRUE, !.playerHasReset = FALSE,
              !.fadeAlpha = 0]

\* Game::TriggerWin
TriggerWin(g) ==
    TriggerPlayerDeath([g EXCEPT !.playerHasWon = TRUE, !.events.win = @ + 1])

\* The call log of TakeDamage: who = 0 is the player, who = i > 0 is
\* enemies[i]; cooldown is the callee's damageCooldown on entry, lost the
\* health the call took
LogTakeDamage(g, who, cooldown, lost) ==
    [g EXCEPT !.events.takeDamage =
                  Append(@, [who |-> who, cooldown |-> cooldown, lost |-> lost])]

\* Player::TakeDamage, the assignments of an accepted hit; v is the velocity
\* calcKnockback leaves
Player_Hit(p, damage, v) ==
    [p EXCEPT !.knockbackTimer = KnockbackTime,
              !.damageCooldown = DamageCooldownTime,
              !.dashTimer = 0,
              !.velX = v.velX, !.velY = v.velY,
              !.health = p.health - damage]

\* The death test with health < 0
Player_DeathTestLate(g) ==
    IF g.player.health < 0
    THEN TriggerPlayerDeath([PlaySfx(g, "death") EXCEPT !.events.playerDeath = @ + 1])
    ELSE PlaySfx(g, "damage")

\* Player::TakeDamage, the death test after the damage is applied
Player_DeathTest(g) ==
    IF g.player.health <= 0
    THEN TriggerPlayerDeath([PlaySfx(g, "death") EXCEPT !.events.playerDeath = @ + 1])
    ELSE PlaySfx(g, "damage")

\* Player::TakeDamage without the cooldown gate
Player_TakeDamageUngated(g, damage, locX, locY) ==
    Player_DeathTest(
        LogTakeDamage(
            [g EXCEPT !.player =
                Player_Hit(g.player, damage,
                           calcKnockback(g.player.posX, g.player.posY,
                                         g.player.velX, g.player.velY, locX, locY))],
            0, g.player.damageCooldown, damage))

\* Player::TakeDamage
Player_TakeDamage(g, damage, locX, locY) ==
    IF g.player.damageCooldown <= 0
    THEN Player_DeathTest(
             LogTakeDamage(
                 [g EXCEPT !.player =
                     Player_Hit(g.player, damage,
                                calcKnockback(g.player.posX, g.player.posY,
                                              g.player.velX, g.player.velY, locX, locY))],
                 0, g.player.damageCooldown, damage))
    ELSE LogTakeDamage(g, 0, g.player.damageCooldown, 0)

\* Enemy::TakeDamage, the assignments of an accepted hit
Enemy_Hit(e, damage, v) ==
    [e EXCEPT !.knockbackTimer = KnockbackTime,
              !.damageCooldown = DamageCooldownTime,
              !.velX = v.velX, !.velY = v.velY,
              !.health = e.health - damage]

\* The death test that leaves the dead enemy on screen
Enemy_DeathOnScreen(g, i) ==
    IF g.enemies[i].health <= 0
    THEN PlaySfx([g EXCEPT !.enemies[i].isAlive = FALSE,
                           !.enemies[i].respawnTimer = RespawnTime],
                 "death")
    ELSE PlaySfx(g, "damage")

\* Enemy::TakeDamage, the death test after the damage is applied
Enemy_DeathTest(g, i) ==
    IF g.enemies[i].health <= 0
    THEN PlaySfx([g EXCEPT !.enemies[i].isAlive = FALSE,
                           !.enemies[i].onScreen = FALSE,
                           !.enemies[i].respawnTimer = RespawnTime],
                 "death")
    ELSE PlaySfx(g, "damage")

\* Enemy::TakeDamage on enemies[i]: [g |-> ..., took |-> the return value]
Enemy_TakeDamage(g, i, damage, locX, locY) ==
    IF g.enemies[i].damageCooldown <= 0
    THEN [g |-> Enemy_DeathTest(
                    LogTakeDamage(
                        [g EXCEPT !.enemies[i] =
                            Enemy_Hit(g.enemies[i], damage,
                                      calcKnockback(g.enemies[i].posX, g.enemies[i].posY,
                                                    g.enemies[i].velX, g.enemies[i].velY,
                                                    locX, locY))],
                        i, g.enemies[i].damageCooldown, damage),
                    i),
          took |-> TRUE]
    ELSE [g |-> LogTakeDamage(g, i, g.enemies[i].damageCooldown, 0), took |-> FALSE]

\* Enemy::DealDamage of enemies[i]
Enemy_DealDamage(g, i) ==
    LET e == g.enemies[i]
    IN IF e.onScreen /\ AABB(BodyOf(g.player), BodyOf(e))
       THEN Player_TakeDamage(g, ContactDamage, e.posX, e.posY)
       ELSE g

\* Player::DealDamage, the bounce off an enemy hit by a downward attack; r is
\* what Enemy::TakeDamage returned
Pogo(r) ==
    IF r.took /\ ~r.g.player.isJumping /\ r.g.player.attackDirection = "DOWN"
    THEN [r.g EXCEPT !.player.velY = (jumpVelocity * 15 * VelScale) \div 10,
                     !.player.attackCooldown = 0]
    ELSE r.g

\* Player::DealDamage, one iteration of the enemy loop
AttackEnemy(g, i) ==
    IF g.enemies[i].onScreen /\ AABB(BodyOf(g.enemies[i]), AttackHitbox(g.player))
    THEN Pogo(Enemy_TakeDamage(g, i, AttackDamage, g.player.posX, g.player.posY))
    ELSE g

RECURSIVE AttackEnemies(_, _)
AttackEnemies(g, i) ==
    IF i > Len(g.enemies) THEN g ELSE AttackEnemies(AttackEnemy(g, i), i + 1)

\* Player::DealDamage, the allCollected test
WinTest(g) ==
    IF \A j \in 1..Len(g.coins) : g.coins[j].collected THEN TriggerWin(g) ELSE g

\* The coin loop's iteration without the hitbox test
CollectCoinAnywhere(g, i) ==
    IF ~g.coins[i].collected
    THEN WinTest(PlaySfx([g EXCEPT !.coins[i].collected = TRUE], "coin"))
    ELSE g

\* Player::DealDamage, one iteration of the coin loop
CollectCoin(g, i) ==
    IF ~g.coins[i].collected /\ AABB(g.coins[i].body, AttackHitbox(g.player))
    THEN WinTest(PlaySfx([g EXCEPT !.coins[i].collected = TRUE], "coin"))
    ELSE g

RECURSIVE CollectCoins(_, _)
CollectCoins(g, i) ==
    IF i > Len(g.coins) THEN g ELSE CollectCoins(CollectCoin(g, i), i + 1)

\* The attack that resolves collectibles before enemies
Player_DealDamageCoinsFirst(g) ==
    IF ~g.player.isAttacking THEN g
    ELSE AttackEnemies(CollectCoins(g, 1), 1)

\* Player::DealDamage
Player_DealDamage(g) ==
    IF ~g.player.isAttacking THEN g
    ELSE CollectCoins(AttackEnemies(g, 1), 1)

\* Game::Update, one iteration of the enemy loop
EnemyStep(g, i, plats, dt) ==
    Enemy_DealDamage(
        [g EXCEPT !.enemies[i] =
            Enemy_Update(Enemy_CheckOnScreen(g.enemies[i], g.cameraRect), plats, dt,
                         g.player.posX, g.player.posY, BodyOf(g.player))],
        i)

RECURSIVE EnemySteps(_, _, _, _)
EnemySteps(g, i, plats, dt) ==
    IF i > Len(g.enemies) THEN g
    ELSE EnemySteps(EnemyStep(g, i, plats, dt), i + 1, plats, dt)

\* The camera smoothing without the clamp of the target
CameraFollowUnclamped(g, dt) ==
    LET cam == g.camera
    IN [g EXCEPT
          !.cameraRect = [@ EXCEPT !.x = ToInt(cam.x), !.y = ToInt(cam.y)],
          !.camera = [cam EXCEPT
                        !.y = cam.y + MulDiv(cam.targetY - cam.y, CAMERA_DELAY * dt, 1000),
                        !.x = cam.x + MulDiv(cam.targetX - cam.x, CAMERA_DELAY * dt, 1000)]]

\* Game::Update, camera clamp and smoothing
CameraFollow(g, dt) ==
    LET cam == g.camera
        tx == IF cam.targetX < 0 THEN 0
              ELSE IF cam.targetX > ToPos(LEVEL_WIDTH - cam.w)
                   THEN ToPos(LEVEL_WIDTH - cam.w) ELSE cam.targetX
        ty == IF cam.targetY > 0 THEN 0 ELSE cam.targetY
    IN [g EXCEPT
          !.cameraRect = [@ EXCEPT !.x = ToInt(cam.x), !.y = ToInt(cam.y)],
          !.camera = [cam EXCEPT
                        !.targetX = tx, !.targetY = ty,
                        !.y = cam.y + MulDiv(ty - cam.y, CAMERA_DELAY * dt, 1000),
                        !.x = cam.x + MulDiv(tx - cam.x, CAMERA_DELAY * dt, 1000)]]

\* The game with what Player::Update left in u
PlayerUpdated(g, u) ==
    [g EXCEPT !.player = u.player, !.camera = u.camera, !.events.landed = u.landed]

\* Game::Update, the call player.Update(platforms, camera, deltaTime)
PlayerStep(g, plats, dt) ==
    PlayerUpdated(g, Player_Update(g.player, plats, g.camera, dt))

\* The step that updates the player before the enemies
ActiveStepPlayerFirst(g, plats, dt) ==
    CameraFollow(
        Player_DealDamage(EnemySteps(PlayerStep(g, plats, dt), 1, plats, dt)), dt)

\* Game::Update, "Normal game logic"
ActiveStep(g, plats, dt) ==
    CameraFollow(
        Player_DealDamage(PlayerStep(EnemySteps(g, 1, plats, dt), plats, dt)), dt)

\* The reset without the playerHasWon test
ResetLevelAlways(g) ==
    [g EXCEPT
       !.enemies = [i \in 1..Len(g.enemies) |-> Enemy_Respawn(g.enemies[i])],
       !.coins = [i \in 1..Len(g.coins) |-> [g.coins[i] EXCEPT !.collected = FALSE]],
       !.isRunning = ~g.playerHasWon]

\* Game::Update, the reset of enemies and coins, or the end of the run
ResetLevel(g) ==
    IF ~g.playerHasWon
    THEN [g EXCEPT
            !.enemies = [i \in 1..Len(g.enemies) |-> Enemy_Respawn(g.enemies[i])],
            !.coins = [i \in 1..Len(g.coins) |-> [g.coins[i] EXCEPT !.collected = FALSE]]]
    ELSE [g EXCEPT !.isRunning = FALSE]

\* Game::Update, the call player.RespawnPlayer(camera, 100, 250, 10); r is
\* what Player::RespawnPlayer leaves
ResetPlayer(g, r) ==
    [g EXCEPT !.player = r.player, !.camera = r.camera, !.playerHasReset = TRUE]

\* The reset that puts a new player at the default position
ResetObjectsNewPlayer(g) ==
    ResetLevel(
        ResetPlayer(g, [player |-> LoadPlayerData(NewPlayer(PlayerW, PlayerH),
                                              [x |-> DefaultX, y |-> DefaultY,
                                               health |-> DefaultHealth]),
                        camera |-> Player_RespawnPlayer(g.player, g.camera, DefaultX,
                                                        DefaultY, DefaultHealth).camera]))

\* Game::Update, the reset "whilst screen is covered"
ResetObjects(g) ==
    ResetLevel(
        ResetPlayer(g, Player_RespawnPlayer(g.player, g.camera, DefaultX, DefaultY,
                                            DefaultHealth)))

\* Fading out, resuming play as soon as the objects are reset
FadeOutStepResumes(g, dt) ==
    IF g.fadeAlpha + (FADE_SPEED * dt * AlphaScale) \div 1000 >= FadeMax * AlphaScale
    THEN [ResetObjects([g EXCEPT !.fadeAlpha = FadeMax * AlphaScale])
          EXCEPT !.playerIsRespawning = FALSE]
    ELSE [g EXCEPT !.fadeAlpha = @ + (FADE_SPEED * dt * AlphaScale) \div 1000]

\* Game::Update, fading out
FadeOutStep(g, dt) ==
    IF g.fadeAlpha + (FADE_SPEED * dt * AlphaScale) \div 1000 >= FadeMax * AlphaScale
    THEN ResetObjects([g EXCEPT !.fadeAlpha = FadeMax * AlphaScale])
    ELSE [g EXCEPT !.fadeAlpha = @ + (FADE_SPEED * dt * AlphaScale) \div 1000]

\* Game::Update, fading back in
FadeInStep(g, dt) ==
    IF g.fadeAlpha - (FADE_SPEED * dt * AlphaScale) \div 1000 <= 0
    THEN [g EXCEPT !.fadeAlpha = 0, !.playerIsRespawning = FALSE]
    ELSE [g EXCEPT !.fadeAlpha = @ - (FADE_SPEED * dt * AlphaScale) \div 1000]

\* Game::Update, the clamp of deltaTime
ClampDelta(rawDelta) == IF rawDelta > MaxDelta THEN MaxDelta ELSE rawDelta

\* Game::Update after the clamp: the branch on the mode
Game_Step(g, plats) ==
    IF ~g.playerIsRespawning THEN ActiveStep(g, plats, g.deltaTime)
    ELSE IF ~g.playerHasReset THEN FadeOutStep(g, g.deltaTime)
    ELSE FadeInStep(g, g.deltaTime)

\* Game::Update; rawDelta is (currentTick - previousTick) in ms
Game_Update(g, plats, rawDelta) ==
    Game_Step([g EXCEPT !.deltaTime = ClampDelta(rawDelta)], plats)

----------------------------------------------------------------------------
(* Levels and load.  The level files are inputs of the program; the model   *)
(* loads one of a few small levels.                                         *)

\* loadPlatforms: an entry {x, y, w, h} becomes {x, FLOOR_LEVEL - y, w, h}
Platform(x, y, w, h) == Rect(x, FLOOR_LEVEL - y, w, h)

\* loadCoins: an entry {x, y} becomes a 50 x 50 coin
Coin(x, y) == [body |-> Rect(x, FLOOR_LEVEL - y, 50, 50), collected |-> FALSE]

\* loadEnemies: "Flying" is the flying variant, any other tag the melee one
LoadEnemy(type, x, y, w, h, hp) ==
    NewEnemy(x, FLOOR_LEVEL - y, w, h, hp, type = "Flying")

Floor == Platform(0, 0, LEVEL_WIDTH, 100)

\* The floor alone
LevelFlat == <<Floor>>

\* The floor, then a low ledge lying on it
LevelLedge == <<Floor, Platform(200, 10, 100, 10)>>

\* Game::Game: sc is the content of the level and save files,
\* [platforms, enemies, coins, x, y, health]; the constructor reads the
\* level files and leaves the save file to Initialise
NewGame(sc) ==
    [player |-> NewPlayer(PlayerW, PlayerH),
     enemies |-> sc.enemies,
     coins |-> sc.coins,
     camera |-> [targetX |-> 0, targetY |-> 0, x |-> 0, y |-> 0,
                 w |-> WIN_WIDTH, h |-> WIN_HEIGHT],
     cameraRect |-> Rect(0, 0, WIN_WIDTH, WIN_HEIGHT),
     playerIsRespawning |-> FALSE, playerHasReset |-> FALSE,
     playerHasWon |-> FALSE, fadeAlpha |-> 0,
     isRunning |-> FALSE, deltaTime |-> 0, events |-> NoEvents]

\* Player::setPlayerData without the retriggered death
setPlayerDataAsSaved(g, data) ==
    [g EXCEPT !.player = LoadPlayerData(g.player, data)]

\* Player::setPlayerData, "take damage to retrigger death"
setPlayerData(g, data) ==
    LET loaded == [g EXCEPT !.player = LoadPlayerData(g.player, data)]
    IN IF loaded.player.health <= 0 THEN Player_TakeDamage(loaded, 0, 0, 0)
       ELSE loaded

\* Game::Initialise: ok is whether SDL, the window, the renderer and the
\* audio mixer all initialise; if one does not, the method returns before
\* the save file is read and isRunning stays false
Initialise(g, data, ok) ==
    IF ok THEN [setPlayerData(g, data) EXCEPT !.isRunning = TRUE] ELSE g

\* Game::Game followed by a Game::Initialise that succeeds
LoadGame(sc) == Initialise(NewGame(sc), sc, TRUE)

\* The Game object as a record
Game ==
    [player |-> player, enemies |-> enemies, coins |-> coins,
     camera |-> camera, cameraRect |-> cameraRect,
     playerIsRespawning |-> playerIsRespawning,
     playerHasReset |-> playerHasReset, playerHasWon |-> playerHasWon,
     fadeAlpha |-> fadeAlpha, isRunning |-> isRunning, deltaTime |-> deltaTime,
     events |-> events]

\* The variables take the fields of g
Store(g) ==
    /\ player' = g.player
    /\ enemies' = g.enemies
    /\ coins' = g.coins
    /\ camera' = g.camera
    /\ cameraRect' = g.cameraRect
    /\ playerIsRespawning' = g.playerIsRespawning
    /\ playerHasReset' = g.playerHasReset
    /\ playerHasWon' = g.playerHasWon
    /\ fadeAlpha' = g.fadeAlpha
    /\ isRunning' = g.isRunning
    /\ deltaTime' = g.deltaTime
    /\ events' = g.events

\* probe: landed is groundedThisFrame of the last Player::Update; airTime is
\* the simulated time of the steps since the last one that landed; dashed
\* tells whether the last HandleInput triggered a dash; airDashes counts the
\* dashes triggered in the steps since the last one that landed; deadFor[i]
\* is the simulated time of the Active steps that enemies[i] has been dead
\* for, the step of its death not counted, and 0 while it is alive; jumped
\* tells whether the last HandleInput set vel.y to jumpVelocity; airJumps
\* counts those jumps in the steps since the last one that landed; struck is
\* the set of enemies that the attack now active has damaged.
NoProbe ==
    [landed |-> FALSE, airTime |-> 0, dashed |-> FALSE, airDashes |-> 0,
     deadFor |-> <<>>, jumped |-> FALSE, airJumps |-> 0, struck |-> {}]

\* deadFor after an Active Game::Update that left g
DeadFor(g) ==
    [i \in 1..Len(g.enemies) |->
        IF g.enemies[i].isAlive \/ enemies[i].isAlive THEN 0
        ELSE (IF i \in DOMAIN probe.deadFor THEN probe.deadFor[i] ELSE 0) + g.deltaTime]

\* The enemies whose TakeDamage accepted a hit in the step that left g
DamagedIn(g) ==
    {g.events.takeDamage[k].who :
        k \in {j \in DOMAIN g.events.takeDamage :
                  g.events.takeDamage[j].who > 0 /\ g.events.takeDamage[j].lost > 0}}

\* struck after an Active Game::Update that left g
StruckBy(g) ==
    IF g.player.isAttacking THEN probe.struck \cup DamagedIn(g) ELSE {}

\* probe after an Active Game::Update that left g
Observe(g) ==
    IF g.events.landed
    THEN [landed |-> TRUE, airTime |-> 0, dashed |-> FALSE, airDashes |-> 0,
          deadFor |-> DeadFor(g), jumped |-> FALSE, airJumps |-> 0,
          struck |-> StruckBy(g)]
    ELSE [landed |-> FALSE, airTime |-> probe.airTime + g.deltaTime,
          dashed |-> FALSE,
          airDashes |-> probe.airDashes + (IF probe.dashed THEN 1 ELSE 0),
          deadFor |-> DeadFor(g), jumped |-> FALSE,
          airJumps |-> probe.airJumps + (IF probe.jumped THEN 1 ELSE 0),
          struck |-> StruckBy(g)]

\* main up to Game::Run, with the game g on the level plats: the loop is
\* entered only if isRunning
InitTo(g, plats) ==
    /\ pc = (IF g.isRunning THEN "HandleInput" ELSE "done")
    /\ platforms = plats
    /\ player = g.player
    /\ enemies = g.enemies
    /\ coins = g.coins
    /\ camera = g.camera
    /\ cameraRect = g.cameraRect
    /\ playerIsRespawning = g.playerIsRespawning
    /\ playerHasReset = g.playerHasReset
    /\ playerHasWon = g.playerHasWon
    /\ fadeAlpha = g.fadeAlpha
    /\ isRunning = g.isRunning
    /\ deltaTime = g.deltaTime
    /\ events = g.events
    /\ keysNow = {}
    /\ probe = NoProbe
    /\ frame = 0

\* Game game; game.Initialise(); for the files of one of the scenarios
InitFrom(scenarios) ==
    \E sc \in scenarios, ok \in BOOLEAN :
       InitTo(Initialise(NewGame(sc), sc, ok), sc.platforms)

\* Game::HandleInput: keys is the snapshot of the logical inputs; "quit" is
\* the SDL_QUIT event.  Active iterations are counted and bounded by maxFrames.
HandleInputWith(keys, maxFrames) ==
    /\ pc = "HandleInput"
    /\ playerIsRespawning \/ frame < maxFrames
    /\ player' = Player_HandleInput(player, keys)
    /\ probe' = [probe EXCEPT !.dashed = (HandleDash(player, keys) # player),
                              !.jumped = JumpTriggered(player, keys)]
    /\ isRunning' = IF "quit" \in keys THEN FALSE ELSE isRunning
    /\ keysNow' = keys
    /\ events' = NoEvents
    /\ frame' = IF playerIsRespawning THEN frame ELSE frame + 1
    /\ pc' = "Update"
    /\ UNCHANGED <<deltaTime, enemies, coins, platforms, camera, cameraRect,
                   playerIsRespawning, playerHasReset, playerHasWon, fadeAlpha>>

\* The end of a loop iteration in which Game::Update left g: Render has no
\* effect on the state; Game::Run tests isRunning
UpdateTo(g) ==
    /\ Store(g)
    /\ probe' = IF playerIsRespawning THEN probe ELSE Observe(g)
    /\ pc' = IF g.isRunning THEN "HandleInput" ELSE "done"

\* Game::Update, then Render and the loop test of Game::Run.  rawDelta is
\* (currentTick - previousTick) in ms.
UpdateWith(rawDelta) ==
    /\ pc = "Update"
    /\ UpdateTo(Game_Update(Game, platforms, rawDelta))
    /\ UNCHANGED <<platforms, keysNow, frame>>

----------------------------------------------------------------------------
(* Specification Spec: active play from a freshly loaded level *)

MaxFrames == 4

\* The player spawns in the air with the ledge's left end under its right half
ScLedge ==
    [platforms |-> LevelLedge, x |-> 180, y |-> 575, health |-> 10,
     enemies |-> <<>>, coins |-> <<Coin(600, 50)>>]

\* The player spawns on the floor, touched by a melee and a flying enemy
ScFight ==
    [platforms |-> LevelFlat, x |-> 100, y |-> 600, health |-> 10,
     enemies |-> <<LoadEnemy("Melee", 150, 50, 50, 50, 4),
                   LoadEnemy("Flying", 140, 60, 40, 40, 2)>>,
     coins |-> <<Coin(160, 50), Coin(1000, 50)>>]

\* The player spawns on the floor of an empty level
ScFloor ==
    [platforms |-> LevelFlat, x |-> 100, y |-> 600, health |-> 10,
     enemies |-> <<>>, coins |-> <<>>]

KeysPlay == {{}, {"right"}, {"left"}, {"jump"}, {"dash"}, {"attack"}}

DeltasPlay == {21, 40, 1000}

Init == InitFrom({ScLedge, ScFight, ScFloor})

HandleInput == \E keys \in KeysPlay : HandleInputWith(keys, MaxFrames)

Update == \E rawDelta \in DeltasPlay : UpdateWith(rawDelta)

Next == HandleInput \/ Update

Spec == Init /\ [][Next]_vars

----------------------------------------------------------------------------
(* Specification SpecFade: deaths, wins and the fade sequence.  Only the    *)
(* Active iterations are bounded; a fade always runs to its end.            *)

MaxFramesFade == 3

\* The save file of a player who quit while respawning
ScDead ==
    [platforms |-> LevelFlat, x |-> 100, y |-> 600, health |-> 0,
     enemies |-> <<LoadEnemy("Melee", 400, 50, 50, 50, 4)>>,
     coins |-> <<Coin(600, 50)>>]

\* One hit from death, touched by a melee enemy, a weak flying enemy in reach
ScWeak ==
    [platforms |-> LevelFlat, x |-> 100, y |-> 600, health |-> 1,
     enemies |-> <<LoadEnemy("Melee", 150, 50, 50, 50, 4),
                   LoadEnemy("Flying", 140, 60, 40, 40, 2)>>,
     coins |-> <<Coin(160, 50), Coin(1000, 50)>>]

\* The only coin and a weak flying enemy in reach of an attack to the right
ScWin ==
    [platforms |-> LevelFlat, x |-> 100, y |-> 600, health |-> 10,
     enemies |-> <<LoadEnemy("Flying", 165, 60, 40, 40, 2)>>,
     coins |-> <<Coin(160, 50)>>]

KeysFade == {{}, {"right"}, {"attack"}, {"dash"}, {"quit"}}

DeltasFade == {20, 50}

InitFade == InitFrom({ScDead, ScWeak, ScWin})

HandleInputFade == \E keys \in KeysFade : HandleInputWith(keys, MaxFramesFade)

UpdateFade == \E rawDelta \in DeltasFade : UpdateWith(rawDelta)

NextFade == HandleInputFade \/ UpdateFade

SpecFade == InitFade /\ [][NextFade]_vars

----------------------------------------------------------------------------
(* Specification SpecDash: a steady 30 frames per second, the player on the *)
(* floor of an empty level, jump and dash inputs.                           *)

MaxFramesDash == 26

KeysDash == {{}, {"jump"}, {"jump", "dash"}}

DeltasDash == {33}

InitDash == InitFrom({ScFloor})

HandleInputDash == \E keys \in KeysDash : HandleInputWith(keys, MaxFramesDash)

UpdateDash == \E rawDelta \in DeltasDash : UpdateWith(rawDelta)

NextDash == HandleInputDash \/ UpdateDash

SpecDash == InitDash /\ [][NextDash]_vars

----------------------------------------------------------------------------
(* Specification SpecPogo: the player on a ledge under a low ceiling, a     *)
(* melee enemy on the floor right under the ledge.                          *)

MaxFramesPogo == 6

\* The floor, a ledge with its top at y = 600 and a ceiling 20 px above the
\* head of a player standing on the ledge
LevelCeiling == <<Floor, Platform(80, 100, 120, 10), Platform(80, 230, 120, 10)>>

\* The player spawns standing on the ledge; the enemy's top touches the
\* ledge's underside
ScPogo ==
    [platforms |-> LevelCeiling, x |-> 100, y |-> 500, health |-> 10,
     enemies |-> <<LoadEnemy("Melee", 100, 90, 50, 90, 4)>>,
     coins |-> <<Coin(1000, 50)>>]

KeysPogo == {{}, {"jump"}, {"attack", "down"}, {"jump", "attack", "down"}}

DeltasPogo == {40}

InitPogo == InitFrom({ScPogo})

HandleInputPogo == \E keys \in KeysPogo : HandleInputWith(keys, MaxFramesPogo)

UpdatePogo == \E rawDelta \in DeltasPogo : UpdateWith(rawDelta)

NextPogo == HandleInputPogo \/ UpdatePogo

SpecPogo == InitPogo /\ [][NextPogo]_vars

----------------------------------------------------------------------------
(* Specification SpecWorld: the edges of the level, a thin wall, and a      *)
(* camera that has somewhere to go.                                         *)

MaxFramesWorld == 4

\* The floor and a wall 10 px thick, 200 px high, near the right edge
LevelWall == <<Floor, Platform(4060, 200, 10, 200)>>

\* A melee enemy at the left edge of the level, the player just right of it
ScEdge ==
    [platforms |-> LevelFlat, x |-> 70, y |-> 600, health |-> 10,
     enemies |-> <<LoadEnemy("Melee", 5, 50, 50, 50, 4)>>,
     coins |-> <<Coin(1000, 50)>>]

\* The player stands with its right side against the wall
ScWall ==
    [platforms |-> LevelWall, x |-> 4005, y |-> 600, health |-> 10,
     enemies |-> <<>>, coins |-> <<Coin(1000, 50)>>]

\* The player spawns in the air, one hit from death, touched by a flying
\* enemy
ScFar ==
    [platforms |-> LevelFlat, x |-> 900, y |-> 300, health |-> 1,
     enemies |-> <<LoadEnemy("Flying", 940, 360, 40, 40, 2)>>,
     coins |-> <<Coin(1000, 50)>>]

KeysWorld == {{}, {"left"}, {"right"}, {"dash"}, {"attack"}}

DeltasWorld == {21, 1000}

InitWorld == InitFrom({ScEdge, ScWall, ScFar})

HandleInputWorld == \E keys \in KeysWorld : HandleInputWith(keys, MaxFramesWorld)

UpdateWorld == \E rawDelta \in DeltasWorld : UpdateWith(rawDelta)

NextWorld == HandleInputWorld \/ UpdateWorld

SpecWorld == InitWorld /\ [][NextWorld]_vars

----------------------------------------------------------------------------
(* Specification SpecHold: a steady 30 frames per second, the player on the *)
(* floor of an empty level, dash and attack inputs pressed, held and        *)
(* released for longer than their cooldowns.                                *)

MaxFramesHold == 25

KeysHold == {{}, {"dash"}, {"attack"}, {"dash", "attack"}}

DeltasHold == {33}

InitHold == InitFrom({ScFloor})

HandleInputHold == \E keys \in KeysHold : HandleInputWith(keys, MaxFramesHold)

UpdateHold == \E rawDelta \in DeltasHold : UpdateWith(rawDelta)

NextHold == HandleInputHold \/ UpdateHold

SpecHold == InitHold /\ [][NextHold]_vars

----------------------------------------------------------------------------
(* Specification SpecKnock: calcKnockback applied to the player's velocity  *)
(* for damage origins around the player, from a few positions.              *)

\* Offsets of the entity from the damage origin, in px / 4, on either axis
KnockOffsets == {-16000, -220, -7, -1, 0, 1, 3, 200, 12000}

KnockXs == {100, 2000}

KnockYs == {250, 600}

\* The game loaded with the player at one of the positions
InitKnock ==
    \E x \in KnockXs, y \in KnockYs :
       InitTo(LoadGame([ScFloor EXCEPT !.x = x, !.y = y]), ScFloor.platforms)

\* calcKnockback(pos, vel, damageLocation) on the player, the origin being
\* (dx, dy) quarter pixels up and left of the player
KnockFrom(dx, dy) ==
    /\ player' = [player EXCEPT
                     !.velX = calcKnockback(player.posX, player.posY, player.velX, player.velY,
                                            player.posX - dx * (PosScale \div 4),
                                            player.posY - dy * (PosScale \div 4)).velX,
                     !.velY = calcKnockback(player.posX, player.posY, player.velX, player.velY,
                                            player.posX - dx * (PosScale \div 4),
                                            player.posY - dy * (PosScale \div 4)).velY]
    /\ UNCHANGED <<pc, isRunning, deltaTime, enemies, coins, platforms, camera,
                   cameraRect, playerIsRespawning, playerHasReset, playerHasWon,
                   fadeAlpha, keysNow, events, probe, frame>>

NextKnock == \E dx \in KnockOffsets, dy \in KnockOffsets : KnockFrom(dx, dy)

SpecKnock == InitKnock /\ [][NextKnock]_vars

----------------------------------------------------------------------------
(* Specification SpecRespawn: frames of 47 ms for longer than the           *)
(* enemies' respawn time.  The player, one hit from death, starts falling   *)
(* from high above the floor past a flying enemy, which the camera shows    *)
(* from the third step on and leaves behind when it follows the player      *)
(* down.                                                                    *)

MaxFramesRespawn == 220

\* The player spawns 900 px above the floor, the enemy to its right
ScFall ==
    [platforms |-> LevelFlat, x |-> 100, y |-> -300, health |-> 1,
     enemies |-> <<LoadEnemy("Flying", 160, 970, 40, 40, 2)>>,
     coins |-> <<Coin(3000, 50)>>]

KeysRespawn == {{}, {"attack"}}

DeltasRespawn == {47}

InitRespawn == InitFrom({ScFall})

HandleInputRespawn == \E keys \in KeysRespawn : HandleInputWith(keys, MaxFramesRespawn)

UpdateRespawn == \E rawDelta \in DeltasRespawn : UpdateWith(rawDelta)

NextRespawn == HandleInputRespawn \/ UpdateRespawn

SpecRespawn == InitRespawn /\ [][NextRespawn]_vars

----------------------------------------------------------------------------
(* Specification SpecDrop: the player and a walking enemy fall from high    *)
(* above the floor, the enemy in view and out of the player's reach.        *)

MaxFramesDrop == 24

\* The player and a walking enemy spawn in the air, 600 px apart
ScDrop ==
    [platforms |-> LevelFlat, x |-> 100, y |-> -300, health |-> 10,
     enemies |-> <<LoadEnemy("Melee", 700, FLOOR_LEVEL + 300, 50, 50, 4)>>,
     coins |-> <<Coin(3000, 50)>>]

KeysDrop == {{}, {"right"}, {"jump"}, {"attack", "down"}}

DeltasDrop == {40}

InitDrop == InitFrom({ScDrop})

HandleInputDrop == \E keys \in KeysDrop : HandleInputWith(keys, MaxFramesDrop)

UpdateDrop == \E rawDelta \in DeltasDrop : UpdateWith(rawDelta)

NextDrop == HandleInputDrop \/ UpdateDrop

SpecDrop == InitDrop /\ [][NextDrop]_vars

----------------------------------------------------------------------------
(* Specification SpecStrike: a downward attack on a melee enemy that stands *)
(* under the player and touches the player, who is knocked back by it or    *)
(* dies of it, with frames of 21 ms and of 49 ms in any order. A knockback  *)
(* of 0.1 s pauses Player::Update for up to 147 ms of such steps (49, 49,   *)
(* 49); MaxFramesStrike steps of 49 ms are 833 ms, more than the enemy's    *)
(* damage cooldown of 750 ms.                                               *)
(* The player and the enemy have the same x and no key moves the player, so *)
(* every knockback is straight up or straight down at 600 px/s. A knockback *)
(* of the player ends at the ceiling and one of the enemy at the floor.     *)
(* Within the bounds every position is a spawn position, a position aligned *)
(* with a platform, or more than 0.01 px from a whole pixel, and no sum of  *)
(* frames of 21 ms and 49 ms equals a timer.                                *)

MaxFramesStrike == 17

\* The floor, a ledge beside the enemy with its top 20 px under the feet of
\* the respawning player, and a ceiling 4 px above the head of the player
\* at the respawn position (100, 250). The player is saved 5 px lower than
\* the respawn position, in the air and touching the enemy, whose top is
\* 2 px under the feet of the respawning player: after a reset the player
\* touches the enemy again by falling, once the knockback timer has run out
ScStrike ==
    [platforms |-> <<Floor, Platform(150, 330, 100, 50), Platform(0, 504, 400, 50)>>,
     x |-> 100, y |-> 255, health |-> 10,
     enemies |-> <<LoadEnemy("Melee", 100, 348, 50, 348, 6)>>,
     coins |-> <<Coin(3000, 50)>>]

\* The same, the player one hit from death
ScStrikeWeak == [ScStrike EXCEPT !.health = 1]

\* The attack key and the down key are down from the first frame on: the
\* only press is in the first frame, the frame of the enemy's first contact
KeysStrike == {{"attack", "down"}}

DeltasStrike == {21, 49}

InitStrike == InitFrom({ScStrike, ScStrikeWeak})

HandleInputStrike == \E keys \in KeysStrike : HandleInputWith(keys, MaxFramesStrike)

UpdateStrike == \E rawDelta \in DeltasStrike : UpdateWith(rawDelta)

NextStrike == HandleInputStrike \/ UpdateStrike

SpecStrike == InitStrike /\ [][NextStrike]_vars

----------------------------------------------------------------------------
(* Specification SpecLast: the player, one hit from death and touched by an *)
(* enemy, has the last collectible in reach of an attack.                   *)

MaxFramesLast == 3

\* ScWeak with the collectible in reach as the only one
ScLast == [ScWeak EXCEPT !.coins = <<Coin(160, 50)>>]

KeysLast == {{}, {"right"}, {"attack"}}

DeltasLast == {20, 50}

InitLast == InitFrom({ScLast})

HandleInputLast == \E keys \in KeysLast : HandleInputWith(keys, MaxFramesLast)

UpdateLast == \E rawDelta \in DeltasLast : UpdateWith(rawDelta)

NextLast == HandleInputLast \/ UpdateLast

SpecLast == InitLast /\ [][NextLast]_vars

\* Game::Run carries out the HandleInput of an iteration, and its Update,
\* seen on the position in the loop alone
RunHandleInput ==
    /\ pc = "HandleInput"
    /\ playerIsRespawning \/ frame < MaxFramesLast
    /\ pc' = "Update"

RunUpdate == pc = "Update" /\ pc' \in {"HandleInput", "done"}

\* SpecLast with the main loop running: while Game::Run has not left its
\* loop, the next HandleInput and the next Update happen
SpecLastLive == SpecLast /\ WF_pc(RunHandleInput) /\ WF_pc(RunUpdate)

----------------------------------------------------------------------------
(* Specification SpecRest: the player loaded standing on the floor of an   *)
(* empty level, no input, frame times from 1 ms to 50 ms.                  *)

MaxFramesRest == 40

KeysRest == {{}}

DeltasRest == {1, 7, 21, 33, 50}

InitRest == InitFrom({ScFloor})

HandleInputRest == \E keys \in KeysRest : HandleInputWith(keys, MaxFramesRest)

UpdateRest == \E rawDelta \in DeltasRest : UpdateWith(rawDelta)

NextRest == HandleInputRest \/ UpdateRest

SpecRest == InitRest /\ [][NextRest]_vars

----------------------------------------------------------------------------
(* Specification SpecAim: attacks with the up and down inputs, on the floor *)
(* and in the air, facing either way.                                       *)

MaxFramesAim == 4

KeysAim ==
    {{}, {"jump"}, {"left"}, {"attack"}, {"attack", "up"}, {"attack", "down"},
     {"attack", "up", "down"}, {"jump", "attack", "down"}}

DeltasAim == {40}

InitAim == InitFrom({ScFloor})

HandleInputAim == \E keys \in KeysAim : HandleInputWith(keys, MaxFramesAim)

UpdateAim == \E rawDelta \in DeltasAim : UpdateWith(rawDelta)

NextAim == HandleInputAim \/ UpdateAim

SpecAim == InitAim /\ [][NextAim]_vars

----------------------------------------------------------------------------
(* The orchestrator mode, as Game::Update's branches read it *)

Active == ~playerIsRespawning
FadeOut == playerIsRespawning /\ ~playerHasReset
FadeIn == playerIsRespawning /\ playerHasReset

Mode == IF Active THEN "Active" ELSE IF FadeOut THEN "FadeOut" ELSE "FadeIn"

\* The entries of the TakeDamage log of the last step that are calls on `who`
CallsOn(who) == {k \in DOMAIN events.takeDamage : events.takeDamage[k].who = who}

Entities == 0..Len(enemies)

\* Damage amounts and damage origins tried against TakeDamage
TryDamage == {0, ContactDamage, AttackDamage}
TryOrigins == {<<0, 0>>, <<player.posX, player.posY>>,
               <<ToPos(150), ToPos(650)>>}

----------------------------------------------------------------------------
(* Claims *)

\* C1: a TakeDamage call on the player or on an enemy whose damageCooldown
\* is positive changes nothing (only the call is logged, and the enemy's
\* call returns false); in the calls of one step, a call takes health only
\* if the callee's cooldown was not positive, every call made with a positive
\* cooldown takes none, and a call that found the cooldown open leaves every
\* later call on the same entity in that step gated.
C1_DamageGate ==
    /\ \A d \in TryDamage, o \in TryOrigins :
          /\ player.damageCooldown > 0 =>
                Player_TakeDamage(Game, d, o[1], o[2])
                   = LogTakeDamage(Game, 0, player.damageCooldown, 0)
          /\ \A i \in 1..Len(enemies) :
                enemies[i].damageCooldown > 0 =>
                   Enemy_TakeDamage(Game, i, d, o[1], o[2])
                      = [g |-> LogTakeDamage(Game, i, enemies[i].damageCooldown, 0),
                         took |-> FALSE]
    /\ \A k \in DOMAIN events.takeDamage :
          LET c == events.takeDamage[k]
          IN /\ c.lost > 0 => c.cooldown <= 0
             /\ c.cooldown > 0 => c.lost = 0
             /\ c.cooldown <= 0 =>
                   \A j \in CallsOn(c.who) : j > k => events.takeDamage[j].cooldown > 0
    /\ \A who \in Entities :
          Cardinality({k \in CallsOn(who) : events.takeDamage[k].lost > 0}) <= 1

\* C1 witness: in one step two enemies touched the player; the first call
\* found the cooldown open and took health, the second was gated
C1_Witness ==
    \E j, k \in CallsOn(0) :
       /\ j < k
       /\ events.takeDamage[j].lost > 0
       /\ events.takeDamage[k].cooldown > 0
       /\ events.takeDamage[k].lost = 0

\* C2: in every step the player's death event fires at most once; it fires
\* only in an Active step that began with health > 0 and leaves health <= 0,
\* and that step ends in FadeOut; every step that takes the player's health
\* from > 0 to <= 0 fires it; a step that begins with health <= 0 fires none.
C2_DeathOncePerLife ==
    [][pc = "Update" =>
          /\ events'.playerDeath <= 1
          /\ events'.playerDeath = 1 =>
                /\ Active /\ player.health > 0 /\ player'.health <= 0
                /\ playerIsRespawning' /\ ~playerHasReset'
                /\ \E k \in DOMAIN events'.takeDamage :
                      /\ events'.takeDamage[k].who = 0
                      /\ events'.takeDamage[k].cooldown <= 0
          /\ (player.health > 0 /\ player'.health <= 0) => events'.playerDeath = 1
          /\ player.health <= 0 => events'.playerDeath = 0]_vars

\* C2 witness: a step of play has fired the death event
C2_Witness ==
    /\ frame > 0 /\ pc = "HandleInput"
    /\ events.playerDeath = 1 /\ FadeOut /\ player.health <= 0

\* C3: the mode changes only Active -> FadeOut in an Update that fired a
\* death or win event, FadeOut -> FadeIn in the Update in which fadeAlpha
\* reaches 255, and FadeIn -> Active in the Update in which fadeAlpha
\* reaches 0.
C3_ModeTransitions ==
    [][Mode' # Mode =>
          /\ pc = "Update"
          /\ \/ /\ Mode = "Active" /\ Mode' = "FadeOut"
                /\ events'.playerDeath > 0 \/ events'.win > 0
             \/ /\ Mode = "FadeOut" /\ Mode' = "FadeIn"
                /\ fadeAlpha < FadeMax * AlphaScale
                /\ fadeAlpha' = FadeMax * AlphaScale
             \/ /\ Mode = "FadeIn" /\ Mode' = "Active"
                /\ fadeAlpha > 0 /\ fadeAlpha' = 0]_vars

\* C3 witness: play has resumed after a complete fade sequence
C3_Witness == Active /\ playerHasReset /\ fadeAlpha = 0 /\ pc = "HandleInput"

\* C4 as claimed: an action taken while fading, other than the Update that
\* performs the reset, changes no field of the player, of an enemy or of a
\* collectible.  (Stated for the iterations that cannot contain the reset:
\* those in FadeIn, and those in FadeOut too early for one step to reach full
\* alpha.)
C4_FadeSuspendsPlay ==
    [][(/\ playerIsRespawning
        /\ \/ playerHasReset
           \/ fadeAlpha + (FADE_SPEED * MaxDelta * AlphaScale) \div 1000
                 < FadeMax * AlphaScale)
       => /\ player' = player
          /\ enemies' = enemies
          /\ coins' = coins]_vars

\* The player body after the horizontal pass of the Player::Update that an
\* Active Game::Update runs from the current state with delta dt
AfterPlayerX(dt) ==
    LET g1 == EnemySteps(Game, 1, platforms, dt)
    IN Player_HorizontalPass(Player_Velocity(g1.player, dt), platforms, dt)

\* ... and after its vertical pass
AfterPlayerY(dt) == Player_VerticalPass(AfterPlayerX(dt), platforms, dt).e

\* enemies[i] after the horizontal pass of its Enemy::Update in a Game::Update
\* from the current state with delta dt (the enemies before it have acted)
AfterEnemyX(i, dt) ==
    LET g1 == IF i = 1 THEN Game
              ELSE [EnemySteps([Game EXCEPT !.enemies = SubSeq(enemies, 1, i - 1)],
                               1, platforms, dt)
                    EXCEPT !.enemies = @ \o SubSeq(enemies, i, Len(enemies))]
        e1 == Enemy_CheckOnScreen(g1.enemies[i], g1.cameraRect)
    IN [on |-> e1.onScreen,
        e |-> Enemy_HorizontalPass(
                  Enemy_Velocity(e1, dt, g1.player.posX, g1.player.posY,
                                 BodyOf(g1.player)),
                  platforms, dt)]

AfterEnemyY(i, dt) == Enemy_VerticalPass(AfterEnemyX(i, dt).e, platforms, dt)

Clear(e) == \A k \in 1..Len(platforms) : ~AABB(BodyOf(e), platforms[k])

\* C5 as claimed: whatever the tick of the next Update, the player's body
\* overlaps no platform right after the horizontal pass and right after the
\* vertical pass, and neither does the body of any enemy that is updated.
C5_NoOverlapAfterPass ==
    (pc = "Update" /\ Active) =>
       \A raw \in DeltasPlay :
          LET dt == ClampDelta(raw)
          IN /\ Clear(AfterPlayerX(dt))
             /\ Clear(AfterPlayerY(dt))
             /\ \A i \in 1..Len(enemies) :
                   AfterEnemyX(i, dt).on =>
                      /\ Clear(AfterEnemyX(i, dt).e)
                      /\ Clear(AfterEnemyY(i, dt))

\* C6 as claimed: after a step whose vertical pass did not land, the player
\* is grounded only if at most 0.05 s of simulated time has accumulated since
\* the last step that landed.
C6_CoyoteBound ==
    (pc # "Update" /\ frame > 0 /\ ~probe.landed /\ player.isGrounded)
       => probe.airTime <= CoyoteTime

\* C7: an Update fires the win event exactly when it collects a collectible
\* and leaves none uncollected; a collectible is collected only under the
\* active attack hitbox; the step of a win ends in FadeOut; and the Update
\* that completes the FadeOut of a win ends the run, leaving every enemy and
\* every collectible as it was.
C7_Win ==
    [][pc = "Update" =>
          LET newly == {i \in 1..Len(coins) :
                           ~coins[i].collected /\ coins'[i].collected}
          IN /\ events'.win <= 1
             /\ events'.win = 1 <=>
                   (newly # {} /\ \A i \in 1..Len(coins) : coins'[i].collected)
             /\ \A i \in newly :
                   /\ Active /\ player'.isAttacking
                   /\ AABB(coins[i].body, AttackHitbox(player'))
             /\ events'.win = 1 => (playerHasWon' /\ playerIsRespawning'
                                    /\ ~playerHasReset' /\ fadeAlpha' = 0)
             /\ (FadeOut /\ playerHasWon /\ playerHasReset') =>
                   /\ ~isRunning' /\ pc' = "done"
                   /\ enemies' = enemies
                   /\ coins' = coins]_vars

\* C7 witness: the run has ended after a win, with an enemy still dead and
\* the collectibles still collected
C7_Witness ==
    /\ pc = "done" /\ playerHasWon /\ playerHasReset /\ ~isRunning
    /\ fadeAlpha = FadeMax * AlphaScale
    /\ \E i \in 1..Len(enemies) : ~enemies[i].isAlive
    /\ \A i \in 1..Len(coins) : coins[i].collected

\* C8: the Update in which the FadeOut of a death (not of a win) reaches full
\* alpha leaves the player at (100, 250) with zero velocity, health 10 and
\* damageCooldown 0, every enemy alive with full health at its spawn
\* position, every collectible uncollected, and the mode FadeIn.
C8_DeathReset ==
    [][(pc = "Update" /\ FadeOut /\ ~playerHasWon
        /\ fadeAlpha' = FadeMax * AlphaScale) =>
          /\ player'.posX = ToPos(DefaultX) /\ player'.posY = ToPos(DefaultY)
          /\ player'.bodyX = DefaultX /\ player'.bodyY = DefaultY
          /\ player'.velX = 0 /\ player'.velY = 0
          /\ player'.health = DefaultHealth
          /\ player'.damageCooldown = 0
          /\ \A i \in 1..Len(enemies') :
                /\ enemies'[i].isAlive
                /\ enemies'[i].health = enemies[i].maxHealth
                /\ enemies'[i].posX = enemies[i].respawnX
                /\ enemies'[i].posY = enemies[i].respawnY
                /\ enemies'[i].bodyX = ToInt(enemies[i].respawnX)
                /\ enemies'[i].bodyY = ToInt(enemies[i].respawnY)
          /\ \A i \in 1..Len(coins') : ~coins'[i].collected
          /\ playerIsRespawning' /\ playerHasReset']_vars

\* C8 witness: the reset after a death has just run, reviving an enemy that
\* had been hit (its damage cooldown is still open) and restoring a coin
C8_Witness ==
    /\ FadeIn /\ ~playerHasWon /\ fadeAlpha = FadeMax * AlphaScale
    /\ pc = "HandleInput" /\ frame > 0
    /\ player.health = DefaultHealth /\ player.bodyY = DefaultY
    /\ \E i \in 1..Len(enemies) :
          enemies[i].damageCooldown > 0 /\ enemies[i].health = enemies[i].maxHealth

\* C9 as claimed: HandleInput starts a jump only on a rising edge of the jump
\* input (held now, not held in the previous snapshot), with the player
\* grounded and neither dashing nor in knockback.
C9_JumpOnRisingEdge ==
    [][(pc = "HandleInput" /\ ~player.isJumping /\ player'.isJumping) =>
          /\ player'.velY = jumpVelocity * VelScale
          /\ "jump" \in keysNow' /\ "jump" \notin keysNow
          /\ player.isGrounded
          /\ ~player'.isDashing /\ player.knockbackTimer <= 0]_vars

\* C10 as claimed: a dash is triggered only with canDash true and
\* dashCooldown <= 0, and at most one dash is triggered in a run of
\* consecutive steps whose vertical pass does not land.
C10_OneDashPerAirborne ==
    [][/\ (pc = "HandleInput" /\ HandleDash(player, keysNow') # player) =>
             (player.canDash /\ player.dashCooldown <= 0)
       /\ probe'.airDashes <= 1]_vars

\* C11 as claimed: a Player::TakeDamage call that finds the damage cooldown
\* open returns with the dash inactive (isDashing false and dashTimer 0),
\* knockbackTimer = 0.1 s and damageCooldown = 0.75 s.
C11_HitCancelsDash ==
    (pc = "Update" /\ player.damageCooldown <= 0) =>
       \A d \in TryDamage, o \in TryOrigins :
          LET p == Player_TakeDamage(Game, d, o[1], o[2]).player
          IN /\ ~p.isDashing /\ p.dashTimer = 0
             /\ p.knockbackTimer = KnockbackTime
             /\ p.damageCooldown = DamageCooldownTime

\* The player as Player::Update leaves it in the Game::Update that the
\* current state is about to run (before Player::DealDamage)
PlayerBeforeAttack(dt) ==
    PlayerStep(EnemySteps(Game, 1, platforms, dt), platforms, dt).player

\* The calls of Enemy::TakeDamage in the step that led to the next state
EnemyCalls == {k \in DOMAIN events'.takeDamage : events'.takeDamage[k].who > 0}

\* C12 as claimed: in a step in which the active attack points down, the
\* player is airborne and an enemy under the hitbox takes the damage, the
\* step ends with vel.y = jumpVelocity * 1.5 and attackCooldown = 0; if the
\* enemy's TakeDamage was gated, the attack resolution changes neither.
C12_Pogo ==
    [][(pc = "Update" /\ Active /\ player'.isAttacking
        /\ player'.attackDirection = "DOWN" /\ ~player'.isGrounded
        /\ EnemyCalls # {}) =>
          IF \E k \in EnemyCalls : events'.takeDamage[k].cooldown <= 0
          THEN /\ player'.velY = (jumpVelocity * 15 * VelScale) \div 10
               /\ player'.attackCooldown = 0
          ELSE /\ player'.velY = PlayerBeforeAttack(deltaTime').velY
               /\ player'.attackCooldown = PlayerBeforeAttack(deltaTime').attackCooldown]_vars

\* C13 as claimed: a collectible's flag changes only from uncollected to
\* collected, only in the player's attack resolution; a collected collectible
\* never becomes uncollected again.
C13_CollectedForever ==
    [][\A i \in 1..Len(coins) :
          coins'[i].collected # coins[i].collected =>
             /\ ~coins[i].collected /\ coins'[i].collected
             /\ pc = "Update" /\ Active /\ player'.isAttacking
             /\ AABB(coins[i].body, AttackHitbox(player'))]_vars

\* C13 amended: a collectible's flag changes only from uncollected to
\* collected in the player's attack resolution (under the active hitbox), or
\* back to uncollected in the Update in which the FadeOut of a death reaches
\* full alpha, which leaves every collectible uncollected; nothing else
\* touches a collectible.
C13_CollectOrReset ==
    [][/\ Len(coins') = Len(coins)
       /\ \A i \in 1..Len(coins) :
             /\ coins'[i].body = coins[i].body
             /\ coins'[i].collected # coins[i].collected =>
                   \/ /\ ~coins[i].collected
                      /\ pc = "Update" /\ Active /\ player'.isAttacking
                      /\ AABB(coins[i].body, AttackHitbox(player'))
                   \/ /\ coins[i].collected
                      /\ pc = "Update" /\ FadeOut /\ ~playerHasWon
                      /\ fadeAlpha' = FadeMax * AlphaScale /\ playerHasReset'
                      /\ \A j \in 1..Len(coins) : ~coins'[j].collected]_vars

\* C13 witness: the FadeOut of a death is under way with a collectible that
\* the attack collected in that life
C13_Witness ==
    /\ FadeOut /\ ~playerHasWon /\ fadeAlpha > 0 /\ frame > 0
    /\ \E i \in 1..Len(coins) : coins[i].collected

\* The rectangle b lies within the level horizontally
InLevel(b) == 0 <= b.x /\ b.x + b.w <= LEVEL_WIDTH

\* C14 as claimed: the player and every enemy stay within the level
\* horizontally: 0 <= body.x and body.x + body.w <= LEVEL_WIDTH.
C14_InLevel ==
    /\ InLevel(BodyOf(player))
    /\ \A i \in 1..Len(enemies) : InLevel(BodyOf(enemies[i]))

\* The rectangle a lies beside the platform pl, entirely left of it, and
\* the rectangle b entirely right of it (or the other way round); or a lies
\* entirely above pl, over it, and b entirely below it (or the other way
\* round)
Tunnelled(a, b, pl) ==
    \/ /\ a.y < pl.y + pl.h /\ a.y + a.h > pl.y
       /\ \/ a.x + a.w <= pl.x /\ b.x >= pl.x + pl.w
          \/ a.x >= pl.x + pl.w /\ b.x + b.w <= pl.x
    \/ /\ a.x < pl.x + pl.w /\ a.x + a.w > pl.x
       /\ \/ a.y + a.h <= pl.y /\ b.y >= pl.y + pl.h
          \/ a.y >= pl.y + pl.h /\ b.y + b.h <= pl.y

\* C15 as claimed: in an active step the frame time is clamped to at most
\* 0.05 s, and neither the player nor an enemy that was entirely on one side
\* of a platform ends the step entirely on the opposite side of it.
C15_NoTunnel ==
    [][(pc = "Update" /\ Active) =>
          /\ deltaTime' <= MaxDelta
          /\ \A k \in 1..Len(platforms) :
                /\ ~Tunnelled(BodyOf(player), BodyOf(player)', platforms[k])
                /\ \A i \in 1..Len(enemies) :
                      ~Tunnelled(BodyOf(enemies[i]), BodyOf(enemies[i])', platforms[k])]_vars

\* The fields of an enemy that moving it or damaging it would change
Standing(e) == <<e.posX, e.posY, e.bodyX, e.bodyY, e.velX, e.velY, e.health>>

\* C16: a dead enemy is never on screen; in every Update step an enemy that
\* is dead before the step gets no TakeDamage call, its contact attempt
\* leaves the game as it is, and unless the step respawns it, it keeps its
\* position, body, velocity and health.
C16_DeadIsInert ==
    /\ [](\A i \in 1..Len(enemies) : ~enemies[i].isAlive => ~enemies[i].onScreen)
    /\ [][\A i \in 1..Len(enemies) :
            (pc = "Update" /\ ~enemies[i].isAlive) =>
               /\ \A k \in DOMAIN events'.takeDamage : events'.takeDamage[k].who # i
               /\ Enemy_DealDamage(Game, i) = Game
               /\ ~enemies'[i].isAlive => Standing(enemies'[i]) = Standing(enemies[i])]_vars

\* An enemy has been dead for at least one Update step in which it lay
\* under the hitbox of the player's attack
C16_Witness ==
    \E i \in 1..Len(enemies) :
       /\ ~enemies[i].isAlive /\ enemies[i].respawnTimer < RespawnTime
       /\ player.isAttacking /\ AABB(BodyOf(enemies[i]), AttackHitbox(player))

\* enemies[i] after its on-screen check and update of this step, given the
\* player's position and body from before the step
EnemyAfterUpdate(i) ==
    Enemy_Update(Enemy_CheckOnScreen(enemies[i], cameraRect), platforms, deltaTime',
                 player.posX, player.posY, BodyOf(player))

\* The enemies whose contact attempt of this step reaches the player's body
\* from before the step
Touching ==
    {i \in 1..Len(enemies) :
        /\ EnemyAfterUpdate(i).onScreen
        /\ AABB(BodyOf(player), BodyOf(EnemyAfterUpdate(i)))}

\* C17: in every active step each enemy is checked, updated and attempts
\* contact against the player as it was at the end of the previous step:
\* every enemy ends the step where that update puts it (and as that update
\* leaves it, unless the player's attack then hits it), and the player gets
\* one TakeDamage call for each on-screen enemy whose updated body overlaps
\* the player's body from before the step.
C17_EnemiesBeforePlayer ==
    [][(pc = "Update" /\ Active) =>
          /\ \A i \in 1..Len(enemies) :
                /\ BodyOf(enemies'[i]) = BodyOf(EnemyAfterUpdate(i))
                /\ enemies'[i].posX = EnemyAfterUpdate(i).posX
                /\ enemies'[i].posY = EnemyAfterUpdate(i).posY
                /\ EnemyCalls = {} => enemies'[i] = EnemyAfterUpdate(i)
          /\ Cardinality({k \in DOMAIN events'.takeDamage : events'.takeDamage[k].who = 0})
                = Cardinality(Touching)]_vars

\* The player's update moved it onto an on-screen enemy, whose contact
\* attempt of the step had already found the player out of reach
C17_Witness ==
    /\ pc = "HandleInput" /\ frame > 0 /\ Active
    /\ CallsOn(0) = {}
    /\ \E i \in 1..Len(enemies) :
          enemies[i].onScreen /\ AABB(BodyOf(player), BodyOf(enemies[i]))

\* The enemies under the player's attack of this step: the attack is
\* active after the player's update, the enemy is on screen after its own
\* update and its body overlaps the hitbox the player's update placed
Struck ==
    {i \in 1..Len(enemies) :
        /\ player'.isAttacking
        /\ EnemyAfterUpdate(i).onScreen
        /\ AABB(BodyOf(enemies'[i]), AttackHitbox(player'))}

\* C18 as claimed: in the calls of an active step the player's attack on
\* enemies comes before every contact attempt on the player, and there are
\* no more contact attempts than enemies on screen after the attack.
C18_AttackThenContact ==
    [][(pc = "Update" /\ Active) =>
          /\ \A j, k \in DOMAIN events'.takeDamage :
                (events'.takeDamage[j].who > 0 /\ events'.takeDamage[k].who = 0) => j < k
          /\ Cardinality({k \in DOMAIN events'.takeDamage : events'.takeDamage[k].who = 0})
                <= Cardinality({i \in 1..Len(enemies) : enemies'[i].onScreen})]_vars

\* C18, amended: in an active step every contact attempt on the player
\* comes first, one for each enemy that after its update is on screen and
\* overlaps the player's body of the previous step boundary; then, after the
\* player's update, the attack is resolved once: one TakeDamage call on each
\* on-screen enemy under the hitbox, in enemy order, and then the
\* collectibles.
C18_ContactThenAttack ==
    [][(pc = "Update" /\ Active) =>
          /\ \A j, k \in DOMAIN events'.takeDamage :
                (events'.takeDamage[j].who = 0 /\ events'.takeDamage[k].who > 0) => j < k
          /\ Cardinality({k \in DOMAIN events'.takeDamage : events'.takeDamage[k].who = 0})
                = Cardinality(Touching)
          /\ {events'.takeDamage[k].who : k \in EnemyCalls} = Struck
          /\ Cardinality(EnemyCalls) = Cardinality(Struck)
          /\ \A j, k \in EnemyCalls :
                j < k => events'.takeDamage[j].who < events'.takeDamage[k].who
          /\ \A j, k \in DOMAIN events'.sfx :
                (events'.sfx[j] = "coin" /\ events'.sfx[k] # "coin") => k < j]_vars

\* A step in which an enemy touched the player, the attack hit an enemy
\* and a collectible was picked up
C18_Witness ==
    /\ pc = "HandleInput" /\ frame > 0
    /\ CallsOn(0) # {}
    /\ \E k \in DOMAIN events.takeDamage :
          events.takeDamage[k].who > 0 /\ events.takeDamage[k].lost > 0
    /\ \E k \in DOMAIN events.sfx : events.sfx[k] = "coin"

\* What a triggered dash writes, and what a triggered attack writes
DashFields(p) == <<p.isDashing, p.canDash, p.dashTimer, p.dashCooldown>>

AttackFields(p) == <<p.isAttacking, p.attackTimer, p.attackCooldown, p.attackDirection>>

\* C19: input handling starts a dash only when the dash input is down and
\* was up in the previous step, and starts an attack only when the attack
\* input is down and was up in the previous step, no attack is active and
\* attackCooldown <= 0; so an input held down starts nothing after its
\* first step.
C19_RisingEdge ==
    [][pc = "HandleInput" =>
          /\ DashFields(player') # DashFields(player) =>
                /\ "dash" \in keysNow' /\ "dash" \notin keysNow
                /\ player'.isDashing /\ player'.dashTimer = DashTime
          /\ AttackFields(player') # AttackFields(player) =>
                /\ "attack" \in keysNow' /\ "attack" \notin keysNow
                /\ ~player.isAttacking /\ player.attackCooldown <= 0
                /\ player'.isAttacking /\ player'.attackTimer = AttackTime]_vars

\* Input handling has just left the attack input, held down since an
\* earlier attack ran out and its cooldown expired, without starting an
\* attack
C19_Witness ==
    /\ pc = "Update" /\ "attack" \in keysNow
    /\ ~player.isAttacking /\ player.attackCooldown <= 0 /\ player.attackTimer < 0

\* b lies between a and c, ends included
Between(a, b, c) == (a <= b /\ b <= c) \/ (c <= b /\ b <= a)

\* C20: the camera target stays within [0, LEVEL_WIDTH - camera.w] and at or
\* above the top of the level (targetY <= 0), and so does the camera; in
\* every active step the camera moves by (target - current) * 15 * dt and
\* ends between where it was and the target.
C20_CameraInLevel ==
    /\ [](/\ 0 <= camera.targetX /\ camera.targetX <= ToPos(LEVEL_WIDTH - camera.w)
          /\ camera.targetY <= 0
          /\ 0 <= camera.x /\ camera.x <= ToPos(LEVEL_WIDTH - camera.w)
          /\ camera.y <= 0)
    /\ [][(pc = "Update" /\ Active) =>
            /\ camera'.x = camera.x
                  + MulDiv(camera'.targetX - camera.x, CAMERA_DELAY * deltaTime', 1000)
            /\ camera'.y = camera.y
                  + MulDiv(camera'.targetY - camera.y, CAMERA_DELAY * deltaTime', 1000)
            /\ Between(camera.x, camera'.x, camera'.targetX)
            /\ Between(camera.y, camera'.y, camera'.targetY)]_vars

\* After a respawn (the player of ScFar has full health) the camera, put
\* above the level by the respawn, follows a target above the level while
\* the horizontal target is held at the left edge
C20_Witness ==
    /\ pc = "HandleInput" /\ Active /\ frame > 1
    /\ platforms = LevelFlat /\ player.health = DefaultHealth
    /\ camera.targetX = 0 /\ camera.x = 0
    /\ camera.y < camera.targetY /\ camera.targetY < 0

\* C21: calcKnockback leaves the velocity as it is when the position equals
\* the damage origin, and for an origin at the same y and a different x it
\* gives vel.x = 600 away from the origin (-600 when the origin is to the
\* right) and vel.y = -200.
C21_Knockback ==
    \A dx \in KnockOffsets :
       LET at == calcKnockback(player.posX, player.posY, player.velX, player.velY,
                               player.posX, player.posY)
           beside == calcKnockback(player.posX, player.posY, player.velX, player.velY,
                                   player.posX - dx * (PosScale \div 4), player.posY)
       IN /\ at = [velX |-> player.velX, velY |-> player.velY]
          /\ dx # 0 =>
                /\ beside.velX = (IF dx > 0 THEN HORIZONTAL_KNOCKBACK
                                  ELSE -HORIZONTAL_KNOCKBACK) * VelScale
                /\ beside.velY = -200 * VelScale

\* The player has been knocked to the left by an origin at its own height
C21_Witness ==
    player.velX = -600 * VelScale /\ player.velY = -200 * VelScale

\* enemies[i] is alive with full health at its spawn position
AtSpawn(e) ==
    /\ e.isAlive /\ e.health = e.maxHealth
    /\ e.posX = e.respawnX /\ e.posY = e.respawnY
    /\ e.bodyX = ToInt(e.respawnX) /\ e.bodyY = ToInt(e.respawnY)

\* C22: a dead enemy is off screen and has been dead for less than 10 s of
\* active steps; it comes back to life only in the active step that brings
\* that time to 10 s, and in that step it does, or in the step of the reset
\* after a player death; either way it is alive with full health at its
\* spawn position.
C22_RespawnAfterTen ==
    /\ [](\A i \in 1..Len(enemies) :
             ~enemies[i].isAlive =>
                ~enemies[i].onScreen /\ probe.deadFor[i] < RespawnTime)
    /\ [][\A i \in 1..Len(enemies) :
            ~enemies[i].isAlive =>
               /\ (pc = "Update" /\ Active
                   /\ probe.deadFor[i] + deltaTime' >= RespawnTime) => enemies'[i].isAlive
               /\ enemies'[i].isAlive =>
                     /\ AtSpawn(enemies'[i])
                     /\ \/ /\ pc = "Update" /\ Active
                           /\ probe.deadFor[i] + deltaTime' >= RespawnTime
                        \/ /\ pc = "Update" /\ FadeOut /\ ~playerHasWon
                           /\ fadeAlpha' = FadeMax * AlphaScale /\ playerHasReset']_vars

\* An enemy that was killed is alive again at its spawn position, outside
\* the camera's view, and the player has not died in between
C22_Witness ==
    /\ pc = "HandleInput" /\ Active /\ ~playerHasReset
    /\ \E i \in 1..Len(enemies) :
          /\ AtSpawn(enemies[i]) /\ enemies[i].respawnTimer < 0
          /\ ~AABB(BodyOf(enemies[i]), cameraRect)

\* C23: the attack direction changes only in the input handling that
\* triggers an attack, and a triggered attack takes the direction Up if the
\* up input is down, otherwise Down if the down input is down and the
\* player is not grounded, otherwise Left if the player faces left, else
\* Right; so Down is never taken while grounded, and the direction stays
\* while the attack is active.
C23_AttackDirection ==
    [][/\ player'.attackDirection # player.attackDirection =>
             pc = "HandleInput" /\ ~player.isAttacking /\ player'.isAttacking
       /\ (pc = "HandleInput" /\ ~player.isAttacking /\ player'.isAttacking) =>
             /\ player'.attackDirection =
                   (IF "up" \in keysNow' THEN "UP"
                    ELSE IF "down" \in keysNow' /\ ~player'.isGrounded THEN "DOWN"
                    ELSE IF player'.facingLeft THEN "LEFT" ELSE "RIGHT")
             /\ player'.attackDirection = "DOWN" => ~player.isGrounded
       /\ (player.isAttacking /\ player'.isAttacking) =>
             player'.attackDirection = player.attackDirection]_vars

\* An attack triggered on the ground with the down input held is under
\* way to the left, the down input still held
C23_Witness ==
    /\ pc = "Update" /\ frame > 2
    /\ player.isAttacking /\ player.attackTimer < AttackTime
    /\ player.isGrounded /\ "down" \in keysNow
    /\ player.attackDirection = "LEFT"

\* The dash and attack state of the player
DashAttackState(p) ==
    <<p.canDash, p.isDashing, p.dashTimer, p.dashCooldown,
      p.isAttacking, p.attackTimer, p.attackCooldown, p.attackDirection>>

\* Positions and health that RespawnPlayer is tried with
TryRespawns == {<<DefaultX, DefaultY, DefaultHealth>>, <<0, -5, 1>>, <<4000, 600, 3>>}

\* p is at (x, y) at rest with health hp and no damage cooldown
RespawnedAt(p, x, y, hp) ==
    /\ p.posX = ToPos(x) /\ p.posY = ToPos(y) /\ p.bodyX = x /\ p.bodyY = y
    /\ p.velX = 0 /\ p.velY = 0 /\ p.health = hp /\ p.damageCooldown = 0

\* C24: RespawnPlayer(x, y, hp) puts the player at (x, y) at rest with
\* health hp and damageCooldown 0 and leaves its dash and attack state as
\* it is; so does the step of the reset, which calls it with (100, 250, 10).
C24_RespawnKeepsDashAttack ==
    /\ [](\A r \in TryRespawns :
             /\ RespawnedAt(Player_RespawnPlayer(player, camera, r[1], r[2], r[3]).player,
                            r[1], r[2], r[3])
             /\ DashAttackState(Player_RespawnPlayer(player, camera, r[1], r[2], r[3]).player)
                   = DashAttackState(player))
    /\ [][(pc = "Update" /\ ~playerHasReset /\ playerHasReset') =>
             /\ RespawnedAt(player', 100, 250, 10)
             /\ DashAttackState(player') = DashAttackState(player)]_vars

\* The player has just been respawned in the middle of a dash and of an
\* attack
C24_Witness ==
    /\ pc = "HandleInput" /\ FadeIn /\ fadeAlpha = FadeMax * AlphaScale
    /\ RespawnedAt(player, 100, 250, 10)
    /\ player.isDashing /\ player.dashTimer > 0 /\ ~player.canDash
    /\ player.isAttacking /\ player.attackCooldown > 0

\* C25: the vertical velocity of the player and of every enemy is at most
\* TERMINAL_VELOCITY, in every state, whatever gravity steps, jumps, pogo
\* bounces, knockbacks and collisions came before.
C25_TerminalVelocity ==
    /\ player.velY <= TERMINAL_VELOCITY * VelScale
    /\ \A i \in 1..Len(enemies) : enemies[i].velY <= TERMINAL_VELOCITY * VelScale

\* The player and a walking enemy both fall at the terminal velocity
C25_Witness ==
    /\ pc = "HandleInput"
    /\ player.velY = TERMINAL_VELOCITY * VelScale
    /\ \E i \in 1..Len(enemies) :
          ~enemies[i].isFlying /\ enemies[i].velY = TERMINAL_VELOCITY * VelScale

\* C26: in Active mode the player's health is positive in every state; a
\* player with health <= 0, as after a load from such a save, is in FadeOut,
\* and has health 10 from the reset until gameplay resumes.
C26_AliveWhenActive ==
    /\ Active => player.health > 0
    /\ player.health <= 0 => FadeOut
    /\ FadeIn => player.health = DefaultHealth

\* Gameplay has resumed, before any Active step, for a player that was
\* loaded dead
C26_Witness ==
    /\ pc = "HandleInput" /\ Active /\ frame = 0
    /\ playerHasReset /\ fadeAlpha = 0
    /\ player.health = DefaultHealth

\* C27: an attack damages an enemy at most once from its trigger until
\* isAttacking becomes false: an enemy that the active attack has damaged
\* takes no damage in a later step of it, whether or not the attack timer
\* was paused by a knockback of the player or by a fade in between.
\* Violated under SpecStrike: RespawnPlayer clears the player's damage
\* cooldown and keeps the knockback and attack timers, so the knockback of
\* the lethal contact and that of the first contact after the respawn pause
\* the attack for 119 ms and 147 ms of the steps that follow the first hit,
\* and the attack outlasts the enemy's cooldown of 750 ms, which no
\* knockback pauses.
C27_OneHitPerAttack ==
    [][(pc = "Update" /\ Active) =>
          \A k \in DOMAIN events'.takeDamage :
             (events'.takeDamage[k].who > 0 /\ events'.takeDamage[k].lost > 0)
                => events'.takeDamage[k].who \notin probe.struck]_vars

\* C28: no mid-air double jump: input handling sets vel.y to jumpVelocity
\* at most once in the steps after one whose vertical pass landed and up to
\* the next one that lands.
C28_NoDoubleJump ==
    [][(pc = "HandleInput" /\ Active /\ probe'.jumped) => probe.airJumps = 0]_vars

\* C29: a step in which the player's death event fires collects no
\* collectible and fires no win event, and leaves the game in the fade of a
\* death, not of a win.
C29_DeathExcludesWin ==
    [][(pc = "Update" /\ Active /\ events'.playerDeath > 0) =>
          /\ events'.win = 0
          /\ \A k \in DOMAIN events'.sfx : events'.sfx[k] # "coin"
          /\ \A k \in DOMAIN coins : coins'[k].collected = coins[k].collected
          /\ ~playerHasWon']_vars

\* C30: every fade completes: fadeAlpha stays within [0, 255]; a step in
\* which the player's death event fired is followed, the loop going on with
\* positive frame times, by a state in Active mode with fadeAlpha = 0; a step
\* in which the win event fired is followed by the end of the main loop.
C30_FadesComplete ==
    /\ [](0 <= fadeAlpha /\ fadeAlpha <= FadeMax * AlphaScale)
    /\ (events.playerDeath > 0) ~> (Active /\ fadeAlpha = 0)
    /\ (events.win > 0) ~> (pc = "done")

\* C31: a player resting on top of a platform, with no input and no damage,
\* is reported grounded after every step, whatever the frame times.
C31_RestingIsGrounded ==
    (pc = "HandleInput" /\ frame > 0 /\ Active /\ keysNow = {}
       /\ player.bodyY + player.h = Floor.y /\ player.health = DefaultHealth)
       => player.isGrounded

====
